---- MODULE Spec2Model ----
(***************************************************************************)
(* A model of the weather-fusion ensemble pipeline: the TTL byte cache     *)
(* (ingest/cache.py), the pipeline driver and its dispatch order           *)
(* (pipeline.py) and the ensemble reducer (processing/ensemble.py).        *)
(*                                                                         *)
(* The specifications share the variables; each leaves the variables of    *)
(* the other parts at their idle values:                                   *)
(*   SpecCache        CacheManager.fetch over a clock and a directory tree *)
(*   SpecPipeline     run_pipeline's ingestion loop and reduction          *)
(*   SpecEnsemble     build_site_ensembles applied to bounded record lists *)
(*   SpecEnsembleMix  the same over records varying in PoP, source,        *)
(*                    precipitation type and wind text                     *)
(*   SpecEhs          classify_heat, classify_freeze and the reducer's use *)
(*                    of them (processing/ehs.py)                          *)
(*   SpecGrib         NBMIngestor: cycle selection and fetch               *)
(*                    (ingest/grib.py)                                     *)
(*   SpecIndex        parse_index and NBMIngestor._find_entry              *)
(*   SpecGridpoint    GridpointIngestor.fetch on grid data                 *)
(*                    (ingest/gridpoint.py)                                *)
(*   SpecRss          parse_rss (ingest/rss.py)                            *)
(*   SpecDwml         parse_dwml (ingest/dwml.py)                          *)
(*   SpecFeed         RSSIngestor._download_feed and fetch over the cache  *)
(*                    (ingest/rss.py)                                      *)
(*                                                                         *)
(* Optional values (Python's None) are sequences of length at most one:    *)
(* None is << >> and a present value v is << v >>.                         *)
(***************************************************************************)
EXTENDS Integers, Sequences, FiniteSets, TLC

VARIABLES
    \* ---- cache (ingest/cache.py) ----
    now,            \* the wall clock, in ticks
    ttl,            \* CacheManager.ttl, in ticks
    files,          \* the directory tree: slot -> file (exists, data, mtime)
    dirs,           \* namespaces whose directory has been created by _slot
    lastFetch,      \* per slot, the previous fetch: when, and whether it wrote
    op,             \* what the latest fetch did (its observation)
    \* ---- pipeline driver (pipeline.py) ----
    settings,       \* AppSettings: primary_ingest, rss_fallback, days, site names
    order,          \* the list _ingestor_order returned
    pc,             \* "start", "ingest", "reduce", "done" ("aborted": an error escaped)
    idx,            \* position in the (ingestor, site) iteration
    records,        \* site name -> accumulated source records
    sources_ok,     \* site name -> list of source identifiers
    sources_failed, \* site name -> list of failure strings
    fetch_log,      \* the ingestor.fetch calls made so far, in order
    rows,           \* home_rows and work_rows, once the reducer has run
    \* ---- ensemble reducer (processing/ensemble.py) ----
    ens_records,    \* the input record list
    ens_days,       \* the days argument
    ens_out,        \* the returned list, once build_site_ensembles has run
    ens_pc,         \* "input", "done"
    \* ---- EHS classification (processing/ehs.py) ----
    ehs_heat,       \* the latest classify_heat call: argument and result
    ehs_freeze,     \* the latest classify_freeze call: arguments and result
    \* ---- NBM GRIB ingestor (ingest/grib.py) ----
    grib_now,       \* the UTC clock, in hours
    grib_cfg,       \* the ingestor's days and the UTC offset of its tzinfo
    grib_cycle,     \* NBMIngestor._cycle, the latch
    grib_pc,        \* "ready", "probe", "body" ("idle" outside SpecGrib)
    grib_call,      \* the fetch in progress: site, time, candidates, probes
    grib_calls,     \* the fetch calls that have returned or raised, in order
    \* ---- parsers and selectors called on one input (ingest/*.py) ----
    parse_in,       \* the arguments of the call
    parse_out,      \* its result, once it has run
    \* ---- RSS feed download (ingest/rss.py) ----
    feed_op         \* what the latest RSSIngestor.fetch did (its observation)

cacheVars == <<now, ttl, files, dirs, lastFetch, op>>
pipeVars == <<settings, order, pc, idx, records, sources_ok,
              sources_failed, fetch_log, rows>>
ensVars == <<ens_records, ens_days, ens_out, ens_pc>>
ehsVars == <<ehs_heat, ehs_freeze>>
gribVars == <<grib_now, grib_cfg, grib_cycle, grib_pc, grib_call, grib_calls>>
parseVars == <<parse_in, parse_out>>
feedVars == <<feed_op>>
vars == <<cacheVars, pipeVars, ensVars, ehsVars, gribVars, parseVars, feedVars>>

None == << >>
Some(v) == << v >>
IsNone(o) == o = << >>
Val(o) == o[1]

Max(a, b) == IF a >= b THEN a ELSE b

(***************************************************************************)
(* Bounds of the model.                                                    *)
(***************************************************************************)
MaxTime == 4          \* the clock runs from 0 to MaxTime ticks
TicksPerHour == 2     \* clock resolution: ticks in one hour of TTL
MaxTtlHours == 1      \* ttl_hours is drawn from -1 .. MaxTtlHours

(***************************************************************************)
(* TTL byte cache: ingest/cache.py                                         *)
(***************************************************************************)
\* Slots root/namespace/name used by the ingestors.
CacheKeys == {<<"rss", "home.xml">>, <<"ndfd", "p.xml">>}
Payloads == {"bytesA", "bytesB"}
Errors == {"HTTPError", "Timeout"}

\* A downloader is a zero-argument producer of bytes: it returns or raises.
Downloaders ==
    [kind : {"bytes"}, val : Payloads] \cup [kind : {"raise"}, val : Errors]

NoFile == [exists |-> FALSE, data |-> "", mtime |-> 0]

\* CacheManager.__init__: self.ttl = timedelta(hours=max(ttl_hours, 0))
TtlOf(ttl_hours) == Max(ttl_hours, 0) * TicksPerHour

\* A plausible slip: the age test excludes the boundary.
_is_fresh_strict(file, t, ttlv) ==
    /\ file.exists
    /\ ttlv # 0
    /\ t - file.mtime < ttlv

\* CacheManager._is_fresh
_is_fresh(file, t, ttlv) ==
    IF ~file.exists THEN FALSE
    ELSE IF ttlv = 0 THEN FALSE
    ELSE t - file.mtime <= ttlv

\* A plausible slip: the slot is opened for writing before the download.
fetch_truncating(fs, key, dl, t, ttlv) ==
    IF _is_fresh(fs[key], t, ttlv)
    THEN [files |-> fs, invoked |-> 0,
          result |-> [kind |-> "ok", fresh |-> TRUE, err |-> ""]]
    ELSE IF dl.kind = "raise"
    THEN [files |-> [fs EXCEPT ![key] = [exists |-> TRUE, data |-> "", mtime |-> t]],
          invoked |-> 1,
          result |-> [kind |-> "raise", fresh |-> FALSE, err |-> dl.val]]
    ELSE [files |-> [fs EXCEPT ![key] = [exists |-> TRUE, data |-> dl.val, mtime |-> t]],
          invoked |-> 1,
          result |-> [kind |-> "ok", fresh |-> FALSE, err |-> ""]]

\* CacheManager.fetch on the tree fs at time t: the tree afterwards, how
\* often the downloader ran, and the CachedFile returned or the error raised.
fetch(fs, key, dl, t, ttlv) ==
    IF _is_fresh(fs[key], t, ttlv)
    THEN [files |-> fs, invoked |-> 0,
          result |-> [kind |-> "ok", fresh |-> TRUE, err |-> ""]]
    ELSE IF dl.kind = "raise"
    THEN [files |-> fs, invoked |-> 1,
          result |-> [kind |-> "raise", fresh |-> FALSE, err |-> dl.val]]
    ELSE [files |-> [fs EXCEPT ![key] = [exists |-> TRUE, data |-> dl.val, mtime |-> t]],
          invoked |-> 1,
          result |-> [kind |-> "ok", fresh |-> FALSE, err |-> ""]]

NoOp == [key |-> <<"", "">>, at |-> 0, pre |-> NoFile, dl |-> [kind |-> "none", val |-> ""],
         invoked |-> 0, result |-> [kind |-> "none", fresh |-> FALSE, err |-> ""],
         prev |-> None]

\* CacheManager(root, ttl_hours) over an empty tree.
CacheInit ==
    /\ now = 0
    /\ ttl \in {TtlOf(h) : h \in -1 .. MaxTtlHours}
    /\ files = [k \in CacheKeys |-> NoFile]
    /\ dirs = {}
    /\ lastFetch = [k \in CacheKeys |-> None]
    /\ op = NoOp
    /\ settings = None /\ order = << >> /\ pc = "idle"
    /\ idx = 0 /\ records = << >> /\ sources_ok = << >>
    /\ sources_failed = << >> /\ fetch_log = << >> /\ rows = << >>
    /\ ens_records = << >> /\ ens_days = 0 /\ ens_out = None /\ ens_pc = "idle"
    /\ ehs_heat = None /\ ehs_freeze = None
    /\ grib_now = 0 /\ grib_cfg = None /\ grib_cycle = None /\ grib_pc = "idle"
    /\ grib_call = None /\ grib_calls = << >>
    /\ parse_in = None /\ parse_out = None /\ feed_op = None

\* Time passes.
Tick ==
    /\ now < MaxTime
    /\ now' = now + 1
    /\ UNCHANGED <<ttl, files, dirs, lastFetch, op, pipeVars, ensVars, ehsVars, gribVars, parseVars, feedVars>>

\* One call of CacheManager.fetch(namespace, name, downloader).
CacheFetch ==
    \E key \in CacheKeys, dl \in Downloaders :
        LET r == fetch(files, key, dl, now, ttl) IN
        /\ files' = r.files
        /\ dirs' = dirs \cup {key[1]}
        /\ op' = [key |-> key, at |-> now, pre |-> files[key], dl |-> dl,
                  invoked |-> r.invoked, result |-> r.result,
                  prev |-> lastFetch[key]]
        /\ lastFetch' = [lastFetch EXCEPT ![key] =
                            Some([at |-> now,
                                  wrote |-> r.invoked = 1 /\ r.result.kind = "ok"])]
        /\ UNCHANGED <<now, ttl, pipeVars, ensVars, ehsVars, gribVars, parseVars, feedVars>>

CacheNext ==
    \/ Tick
    \/ CacheFetch

SpecCache == CacheInit /\ [][CacheNext]_vars

\* C1: a fetch reuses the stored file (downloader not invoked, fresh = true,
\* slot untouched) exactly when the file exists, the TTL is positive and
\* now - mtime <= ttl; otherwise it invokes the downloader once and, when
\* the downloader returns, the slot holds the new bytes stamped now and
\* fresh = false.  Hence after a fetch that downloaded, the next fetch of
\* the key downloads again iff more than the TTL has passed or the TTL is 0.
C1_ReuseIffFresh ==
    op.result.kind # "none" =>
        LET reuse == op.pre.exists /\ ttl > 0 /\ op.at - op.pre.mtime <= ttl IN
        /\ op.invoked = (IF reuse THEN 0 ELSE 1)
        /\ reuse => /\ op.result = [kind |-> "ok", fresh |-> TRUE, err |-> ""]
                    /\ files[op.key] = op.pre
        /\ (~reuse /\ op.dl.kind = "bytes") =>
                /\ op.result = [kind |-> "ok", fresh |-> FALSE, err |-> ""]
                /\ files[op.key] = [exists |-> TRUE, data |-> op.dl.val, mtime |-> op.at]
        /\ (~IsNone(op.prev) /\ Val(op.prev).wrote) =>
                LET dt == op.at - Val(op.prev).at IN
                /\ (ttl > 0 /\ dt < ttl) => op.invoked = 0
                /\ dt > ttl => op.invoked = 1
        /\ ttl = 0 => op.invoked = 1

\* C1 witness: a second fetch less than a positive TTL after a downloading
\* fetch of the same key was served from the file.
C1_Witness ==
    /\ op.result.kind = "ok" /\ op.result.fresh /\ op.invoked = 0
    /\ ~IsNone(op.prev) /\ Val(op.prev).wrote
    /\ op.at - Val(op.prev).at > 0
    /\ op.at - Val(op.prev).at < ttl

\* C2: when the downloader raises, fetch raises the same error and no slot
\* of the tree changes: a missing file stays missing and a stale file keeps
\* its content and modification time.
C2_DownloaderErrorLeavesSlot ==
    [][(op' # op /\ op'.result.kind = "raise") =>
            /\ files' = files
            /\ op'.dl.kind = "raise"
            /\ op'.result.err = op'.dl.val]_vars

\* C2 witness: a fetch over a stale file raised and the stale file is intact.
C2_Witness ==
    /\ op.result.kind = "raise"
    /\ op.pre.exists
    /\ files[op.key] = op.pre
    /\ op.result.err = "Timeout"

(***************************************************************************)
(* Ensemble reducer: processing/ensemble.py                                *)
(*                                                                         *)
(* Source temperatures are whole degrees Fahrenheit; the reducer's means   *)
(* are kept in tenths of a degree, the unit round(x, 1) produces.          *)
(***************************************************************************)
MaxRecs == 3          \* longest record list handed to the reducer

\* models.SourceDailyRecord, the fields the reducer reads.  A text (a wind
\* phrase, the notes) is the sequence of its words; the default notes ""
\* is the empty sequence.
SourceDailyRecord(d, src, hi, lo, pop, ptype, wind, notes) ==
    [date |-> d, source |-> src, high_f |-> hi, low_f |-> lo, pop_pct |-> pop,
     precip_type |-> ptype, wind_phrase |-> wind, notes |-> notes]

\* A record with the defaults precip_type = None, wind_phrase = None, notes = "".
Rec(d, src, hi, lo, pop) ==
    SourceDailyRecord(d, src, hi, lo, pop, None, None, << >>)

\* TEMP_LIMITS
TempLimits(key) == IF key = "high" THEN <<-40, 130>> ELSE <<-60, 95>>

\* A plausible slip: out-of-range values are clamped to the limit.
_sanitize_clamp(value, key) ==
    IF IsNone(value) THEN None
    ELSE LET lo == TempLimits(key)[1]
             hi == TempLimits(key)[2] IN
         IF Val(value) < lo THEN Some(lo)
         ELSE IF Val(value) > hi THEN Some(hi)
         ELSE value

\* _sanitize
_sanitize(value, key) ==
    IF IsNone(value) THEN None
    ELSE LET lo == TempLimits(key)[1]
             hi == TempLimits(key)[2] IN
         IF ~(lo <= Val(value) /\ Val(value) <= hi) THEN None
         ELSE value

RECURSIVE SumSeq(_)
SumSeq(q) == IF q = << >> THEN 0 ELSE Head(q) + SumSeq(Tail(q))

\* round(total / n, 1) in tenths: the nearest tenth, an exact tie going to
\* the even tenth.  (With whole-degree inputs and n < 20 every tie is an
\* exactly representable x.25 or x.75, where Python rounds half to even.)
Round1(total, n) ==
    LET q == (10 * total) \div n
        r == 10 * total - q * n IN
    IF 2 * r < n THEN q
    ELSE IF 2 * r > n THEN q + 1
    ELSE IF q % 2 = 0 THEN q ELSE q + 1

\* The present values of a list of optional values, in order.
Present(values) ==
    LET f == SelectSeq(values, LAMBDA v : ~IsNone(v)) IN
    [i \in 1 .. Len(f) |-> Val(f[i])]

\* A plausible slip: the first present value is taken for the mean.
_mean_first(values) ==
    LET filtered == Present(values) IN
    IF filtered = << >> THEN None
    ELSE Some(10 * filtered[1])

\* _mean
_mean(values) ==
    LET filtered == Present(values) IN
    IF filtered = << >> THEN None
    ELSE Some(Round1(SumSeq(filtered), Len(filtered)))

\* A plausible slip: the poisoned-low rule is missing.
DropPoisonedLow_absent(high, low) == low

\* build_site_ensembles, lines 64-65: a mean low above the mean high is dropped.
DropPoisonedLow(high, low) ==
    IF ~IsNone(high) /\ ~IsNone(low) /\ Val(low) > Val(high) THEN None ELSE low

\* A plausible slip: the skip rule requires nothing.
SkipDay_never(high, low) == FALSE

\* build_site_ensembles, lines 66-67: the skip rule.
SkipDay(high, low) == IsNone(high) /\ IsNone(low)

RECURSIVE SortSet(_)
\* sorted(...) of a set of integers or of strings
SortSet(S) ==
    IF S = {} THEN << >>
    ELSE LET m == CHOOSE x \in S : \A y \in S : x <= y IN
         <<m>> \o SortSet(S \ {m})

\* Source identifiers in sorted() order.
SourceRank(src) ==
    CASE src = "nbm_grib" -> 1
      [] src = "nws_gridpoint" -> 2
      [] src = "nws_ndfd" -> 3
      [] src = "nws_rss" -> 4

RECURSIVE SortSources_descending(_)
\* A plausible slip: the identifiers are sorted in descending order.
SortSources_descending(S) ==
    IF S = {} THEN << >>
    ELSE LET m == CHOOSE x \in S : \A y \in S : SourceRank(x) >= SourceRank(y) IN
         <<m>> \o SortSources_descending(S \ {m})

RECURSIVE SortSources(_)
\* sorted({rec.source for rec in bucket})
SortSources(S) ==
    IF S = {} THEN << >>
    ELSE LET m == CHOOSE x \in S : \A y \in S : SourceRank(x) <= SourceRank(y) IN
         <<m>> \o SortSources(S \ {m})

MaxOfSeq(q) == CHOOSE m \in {q[i] : i \in DOMAIN q} : \A i \in DOMAIN q : q[i] <= m

\* A plausible slip: a record that carries no number is not grouped.
Bucket_with_values(recs, day) ==
    SelectSeq(recs, LAMBDA r : r.date = day
                               /\ (r.high_f # None \/ r.low_f # None \/ r.pop_pct # None))

\* grouped[day]: the records of one date, in input order
Bucket(recs, day) == SelectSeq(recs, LAMBDA r : r.date = day)

\* PRECIP_PRIORITY
PRECIP_PRIORITY ==
    << "Freezing Rain", "Ice Pellets", "Snow", "Sleet",
       "Rain", "Showers", "Drizzle", "Thunderstorms" >>

\* Counter(filtered)[t]: how often t occurs in the list
CountOf(filtered, t) == Cardinality({i \in DOMAIN filtered : filtered[i] = t})

\* index of the first occurrence of t in the list
FirstIndex(filtered, t) ==
    CHOOSE i \in DOMAIN filtered :
        /\ filtered[i] = t
        /\ \A j \in DOMAIN filtered : filtered[j] = t => i <= j

\* A plausible slip: on equal counts the last value seen wins.
most_common_last(filtered) ==
    LET best == CHOOSE i \in DOMAIN filtered :
                    /\ \A j \in DOMAIN filtered :
                           CountOf(filtered, filtered[j]) <= CountOf(filtered, filtered[i])
                    /\ \A j \in DOMAIN filtered :
                           CountOf(filtered, filtered[j]) = CountOf(filtered, filtered[i])
                               => j <= i
    IN  filtered[best]

\* counter.most_common(1)[0][0]: a Counter keeps its keys in order of first
\* insertion and most_common(1) is max() over them by count, which returns
\* the first of the maximal keys.
most_common(filtered) ==
    LET best == CHOOSE i \in DOMAIN filtered :
                    /\ i = FirstIndex(filtered, filtered[i])
                    /\ \A j \in DOMAIN filtered :
                           CountOf(filtered, filtered[j]) <= CountOf(filtered, filtered[i])
                    /\ \A j \in DOMAIN filtered :
                           CountOf(filtered, filtered[j]) = CountOf(filtered, filtered[i])
                               => i <= FirstIndex(filtered, filtered[j])
    IN  filtered[best]

RECURSIVE FirstPriority(_, _)
\* for label in PRECIP_PRIORITY: if label in counter: return label
FirstPriority(labels, filtered) ==
    IF labels = << >> THEN None
    ELSE IF \E i \in DOMAIN filtered : filtered[i] = Head(labels)
         THEN Some(Head(labels))
         ELSE FirstPriority(Tail(labels), filtered)

\* _dominant_precip
_dominant_precip(types) ==
    LET truthy == SelectSeq(types, LAMBDA t : ~IsNone(t) /\ Val(t) # "")
        filtered == [i \in 1 .. Len(truthy) |-> Val(truthy[i])]
        label == FirstPriority(PRECIP_PRIORITY, filtered)
    IN  IF filtered = << >> THEN None
        ELSE IF ~IsNone(label) THEN label
        ELSE Some(most_common(filtered))

\* str.lower() on the words the texts of the model are made of
Lower(word) ==
    CASE word = "Breezy" -> "breezy"
      [] word = "Gusts" -> "gusts"
      [] word = "Windy" -> "windy"
      [] word = "Calm" -> "calm"
      [] word = "Sunny" -> "sunny"
      [] OTHER -> word

\* any(token in text.lower() for token in ("breezy", "wind", "gust")): the
\* lowered words that contain one of the three tokens
MentionsWind(text) ==
    \E i \in DOMAIN text :
        Lower(text[i]) \in {"breezy", "wind", "winds", "windy", "gust", "gusts", "gusty"}

\* build_site_ensembles, lines 74-80: the wind flag of a bucket
Breezy(bucket) ==
    \E i \in DOMAIN bucket :
        \/ /\ ~IsNone(bucket[i].wind_phrase)
           /\ Val(bucket[i].wind_phrase) # << >>
           /\ MentionsWind(Val(bucket[i].wind_phrase))
        \/ /\ bucket[i].notes # << >>
           /\ MentionsWind(bucket[i].notes)

\* ehs.HEAT_BANDS, in list order, with the guidance strings of the source
\* (its two non-ASCII signs written >= and -)
HEAT_BANDS ==
    << [name |-> "Extreme Danger", threshold_f |-> 125,
        guidance |-> [continuous_heavy_work_min |-> "0",
                      hydration_cups_per_min |-> ">=1/10",
                      work_rest_min |-> "10/20/10",
                      supervisor_assessments_per_hr |-> "4",
                      radio_checkins |-> "q15m"]],
       [name |-> "Danger", threshold_f |-> 100,
        guidance |-> [continuous_heavy_work_min |-> "10",
                      hydration_cups_per_min |-> "1/10-15",
                      work_rest_min |-> "20/30/10",
                      supervisor_assessments_per_hr |-> "2",
                      radio_checkins |-> "q30m"]],
       [name |-> "Extreme Caution", threshold_f |-> 90,
        guidance |-> [continuous_heavy_work_min |-> "15",
                      hydration_cups_per_min |-> "1/15-20",
                      work_rest_min |-> "30/40/10",
                      supervisor_assessments_per_hr |-> "1",
                      radio_checkins |-> "start+q1h"]],
       [name |-> "Caution", threshold_f |-> 80,
        guidance |-> [continuous_heavy_work_min |-> "30",
                      hydration_cups_per_min |-> "1/20",
                      work_rest_min |-> "Normal",
                      supervisor_assessments_per_hr |-> "0 (periodic)",
                      radio_checkins |-> "start+q2h"]] >>

\* ehs.DEFAULT_HEAT_GUIDANCE
DEFAULT_HEAT_GUIDANCE ==
    [continuous_heavy_work_min |-> "Normal",
     hydration_cups_per_min |-> "Baseline",
     work_rest_min |-> "Normal",
     supervisor_assessments_per_hr |-> "0",
     radio_checkins |-> "start"]

RECURSIVE FirstBand(_, _)
\* for band in HEAT_BANDS: if high_f >= band.threshold_f: return ...
\* (high in tenths of a degree)
FirstBand(bands, high) ==
    IF bands = << >> THEN [category |-> None, guidance |-> DEFAULT_HEAT_GUIDANCE]
    ELSE IF high >= 10 * Head(bands).threshold_f
         THEN [category |-> Some(Head(bands).name), guidance |-> Head(bands).guidance]
         ELSE FirstBand(Tail(bands), high)

\* A plausible slip: the bands are tested with > instead of >=.
classify_heat_strict(high_f) ==
    IF IsNone(high_f) THEN [category |-> None, guidance |-> DEFAULT_HEAT_GUIDANCE]
    ELSE LET hit == {k \in DOMAIN HEAT_BANDS : Val(high_f) > 10 * HEAT_BANDS[k].threshold_f} IN
         IF hit = {} THEN [category |-> None, guidance |-> DEFAULT_HEAT_GUIDANCE]
         ELSE LET k == CHOOSE x \in hit : \A y \in hit : x <= y IN
              [category |-> Some(HEAT_BANDS[k].name), guidance |-> HEAT_BANDS[k].guidance]

\* ehs.classify_heat; high_f is an optional temperature in tenths
classify_heat(high_f) ==
    IF IsNone(high_f) THEN [category |-> None, guidance |-> DEFAULT_HEAT_GUIDANCE]
    ELSE FirstBand(HEAT_BANDS, Val(high_f))

\* ehs.FREEZE_GUIDANCE: the fixed string of a badge
FREEZE_GUIDANCE(badge) ==
    CASE badge = "Frost" -> "Cover exposed sensors; monitor slick surfaces; plan extra footing checks."
      [] badge = "Freeze" -> "Limit time on elevated surfaces; stage warm shelters; confirm cold-weather PPE/buddy checks."
      [] badge = "Hard Freeze" -> "Pause non-essential outdoor handling; enforce short outdoor rotations; keep warming shelter within reach."

\* the sentence classify_freeze appends
WindChill == " Wind-chill risk: add face/hand protection."

\* A plausible slip: the wind-chill sentence is appended to every badge.
classify_freeze_any_badge(low_f, breezy) ==
    IF IsNone(low_f) \/ Val(low_f) > 10 * 36 THEN [badge |-> None, guidance |-> None]
    ELSE LET badge == IF Val(low_f) <= 10 * 28 THEN "Hard Freeze"
                      ELSE IF Val(low_f) <= 10 * 32 THEN "Freeze"
                      ELSE "Frost" IN
         [badge |-> Some(badge),
          guidance |-> Some(IF breezy THEN <<FREEZE_GUIDANCE(badge), WindChill>>
                            ELSE <<FREEZE_GUIDANCE(badge)>>)]

\* ehs.classify_freeze; low_f is an optional temperature in tenths.  The
\* guidance string is the sequence of the pieces concatenated into it.
classify_freeze(low_f, breezy) ==
    IF IsNone(low_f) THEN [badge |-> None, guidance |-> None]
    ELSE LET badge == IF Val(low_f) <= 10 * 28 THEN Some("Hard Freeze")
                      ELSE IF Val(low_f) <= 10 * 32 THEN Some("Freeze")
                      ELSE IF Val(low_f) <= 10 * 36 THEN Some("Frost")
                      ELSE None IN
         IF IsNone(badge) THEN [badge |-> None, guidance |-> None]
         ELSE [badge |-> badge,
               guidance |-> Some(IF breezy /\ Val(low_f) <= 10 * 32
                                 THEN <<FREEZE_GUIDANCE(Val(badge)), WindChill>>
                                 ELSE <<FREEZE_GUIDANCE(Val(badge))>>)]

\* build_site_ensembles, the body of the loop for one day: the DailyEnsemble
\* built from the day's bucket, or None when the skip rule drops the day.
\* pop_pct, like the temperatures, is emitted in tenths.  (label,
\* precip_notes and the constant lightning_note are left out.)
EnsembleDay(site_name, day, bucket) ==
    LET highs == [i \in DOMAIN bucket |-> _sanitize(bucket[i].high_f, "high")]
        lows == [i \in DOMAIN bucket |-> _sanitize(bucket[i].low_f, "low")]
        high == _mean(highs)
        low == DropPoisonedLow(high, _mean(lows))
        pop_values == Present([i \in DOMAIN bucket |-> bucket[i].pop_pct])
        precip_type == _dominant_precip([i \in DOMAIN bucket |-> bucket[i].precip_type])
        breezy == Breezy(bucket)
        heat == classify_heat(high)
        freeze == classify_freeze(low, breezy)
        sources == SortSources({bucket[i].source : i \in DOMAIN bucket})
    IN  IF SkipDay(high, low) THEN None
        ELSE Some([site_name |-> site_name,
                   date |-> day,
                   high_f |-> high,
                   low_f |-> low,
                   pop_pct |-> IF pop_values = << >> THEN None
                               ELSE Some(10 * MaxOfSeq(pop_values)),
                   precip_type |-> precip_type,
                   heat_category |-> heat.category,
                   heat_guidance |-> heat.guidance,
                   freeze_risk_badge |-> freeze.badge,
                   freeze_guidance |-> freeze.guidance,
                   sources |-> sources,
                   sources_count |-> Len(sources),
                   low_confidence |-> Len(sources) < 2])

RECURSIVE EnsembleLoop(_, _, _, _, _)
\* for day in sorted(grouped.keys()): ... if len(output) >= days: break
EnsembleLoop(site_name, recs, days, daylist, output) ==
    IF daylist = << >> THEN output
    ELSE LET e == EnsembleDay(site_name, Head(daylist), Bucket(recs, Head(daylist))) IN
         IF IsNone(e)
         THEN EnsembleLoop(site_name, recs, days, Tail(daylist), output)
         ELSE IF Len(output) + 1 >= days
              THEN Append(output, Val(e))
              ELSE EnsembleLoop(site_name, recs, days, Tail(daylist),
                                Append(output, Val(e)))

\* build_site_ensembles
build_site_ensembles(site_name, recs, days) ==
    EnsembleLoop(site_name, recs, days,
                 SortSet({recs[i].date : i \in DOMAIN recs}), << >>)

\* Records the reducer is exercised with: in-range, boundary and
\* out-of-range temperatures, absent values, and a low above the high.
TempRecords ==
    { Rec(1, "nbm_grib", Some(82), Some(60), Some(40)),
      Rec(1, "nws_rss", Some(84), Some(59), Some(60)),
      Rec(1, "nws_gridpoint", Some(85), None, None),
      Rec(1, "nws_ndfd", Some(70), Some(80), None),
      Rec(1, "nbm_grib", Some(131), Some(-61), None),
      Rec(1, "nbm_grib", None, None, None),
      Rec(1, "nws_ndfd", None, Some(96), None),
      Rec(1, "nws_gridpoint", Some(130), Some(95), None),
      Rec(2, "nbm_grib", Some(-40), Some(-60), None),
      Rec(2, "nws_gridpoint", None, None, Some(20)),
      Rec(2, "nws_ndfd", Some(-41), Some(61), None) }

DaysArgs == {0, 1, 2}

EnsembleInit ==
    /\ ens_records \in UNION {[1 .. n -> TempRecords] : n \in 0 .. MaxRecs}
    /\ ens_days \in DaysArgs
    /\ ens_out = None
    /\ ens_pc = "input"
    /\ now = 0 /\ ttl = 0 /\ files = [k \in CacheKeys |-> NoFile] /\ dirs = {}
    /\ lastFetch = [k \in CacheKeys |-> None] /\ op = NoOp
    /\ settings = None /\ order = << >> /\ pc = "idle"
    /\ idx = 0 /\ records = << >> /\ sources_ok = << >>
    /\ sources_failed = << >> /\ fetch_log = << >> /\ rows = << >>
    /\ ehs_heat = None /\ ehs_freeze = None
    /\ grib_now = 0 /\ grib_cfg = None /\ grib_cycle = None /\ grib_pc = "idle"
    /\ grib_call = None /\ grib_calls = << >>
    /\ parse_in = None /\ parse_out = None /\ feed_op = None

\* One call build_site_ensembles("Home", records, days).
Reduce ==
    /\ ens_pc = "input"
    /\ ens_out' = Some(build_site_ensembles("Home", ens_records, ens_days))
    /\ ens_pc' = "done"
    /\ UNCHANGED <<ens_records, ens_days, cacheVars, pipeVars, ehsVars, gribVars, parseVars, feedVars>>

EnsembleNext == Reduce

SpecEnsemble == EnsembleInit /\ [][EnsembleNext]_vars

\* ---- what the claims about the reducer are stated over ----
EnsDone == ens_pc = "done"
EnsOutput == Val(ens_out)
EnsDates == {ens_records[i].date : i \in DOMAIN ens_records}
\* positions of the input records of day d whose high (low) is present and
\* inside [-40, 130] ([-60, 95])
HighsInRange(d) ==
    {i \in DOMAIN ens_records :
        /\ ens_records[i].date = d
        /\ ens_records[i].high_f # None
        /\ ens_records[i].high_f[1] >= -40 /\ ens_records[i].high_f[1] <= 130}
LowsInRange(d) ==
    {i \in DOMAIN ens_records :
        /\ ens_records[i].date = d
        /\ ens_records[i].low_f # None
        /\ ens_records[i].low_f[1] >= -60 /\ ens_records[i].low_f[1] <= 95}
RECURSIVE HighTotal(_)
HighTotal(I) ==
    IF I = {} THEN 0
    ELSE LET i == CHOOSE j \in I : TRUE IN ens_records[i].high_f[1] + HighTotal(I \ {i})
RECURSIVE LowTotal(_)
LowTotal(I) ==
    IF I = {} THEN 0
    ELSE LET i == CHOOSE j \in I : TRUE IN ens_records[i].low_f[1] + LowTotal(I \ {i})
\* m tenths is total / n degrees rounded to one decimal
IsMeanTenths(m, total, n) ==
    /\ 2 * (10 * total - m * n) <= n
    /\ 2 * (m * n - 10 * total) <= n
\* the tenths that can be total / n rounded to one decimal
MeanCandidates(total, n) == {m \in ((10 * total) \div n) .. ((10 * total) \div n + 1) :
                                IsMeanTenths(m, total, n)}

\* C8: every emitted DailyEnsemble with both temperatures has low_f <= high_f;
\* a day whose mean low exceeds its mean high is emitted with low_f null and
\* high_f kept.
C8_LowNeverAboveHigh ==
    EnsDone =>
        /\ \A k \in DOMAIN EnsOutput :
              LET e == EnsOutput[k] IN
              (e.high_f # None /\ e.low_f # None) => e.low_f[1] <= e.high_f[1]
        /\ ens_days >= Cardinality(EnsDates) =>
              \A d \in EnsDates :
                 LET H == HighsInRange(d)
                     L == LowsInRange(d) IN
                 (/\ H # {} /\ L # {}
                  /\ \A mh \in MeanCandidates(HighTotal(H), Cardinality(H)),
                        ml \in MeanCandidates(LowTotal(L), Cardinality(L)) : ml > mh)
                 => \E k \in DOMAIN EnsOutput :
                       /\ EnsOutput[k].date = d
                       /\ EnsOutput[k].low_f = None
                       /\ EnsOutput[k].high_f # None
                       /\ EnsOutput[k].high_f[1] \in MeanCandidates(HighTotal(H), Cardinality(H))

\* C8 witness: the record high = 70, low = 80 gave high_f = 70.0, low_f null.
C8_Witness ==
    /\ EnsDone
    /\ ens_records = <<Rec(1, "nws_ndfd", Some(70), Some(80), None)>>
    /\ Len(EnsOutput) = 1
    /\ EnsOutput[1].high_f = Some(700)
    /\ EnsOutput[1].low_f = None

\* C9: every emitted day has high_f or low_f present; a day none of whose
\* records carries an in-range temperature is omitted; and (the horizon
\* permitting) a day with an in-range temperature is emitted.
C9_EmittedIffTemperature ==
    EnsDone =>
        /\ \A k \in DOMAIN EnsOutput :
              EnsOutput[k].high_f # None \/ EnsOutput[k].low_f # None
        /\ \A d \in EnsDates :
              (HighsInRange(d) = {} /\ LowsInRange(d) = {}) =>
                  \A k \in DOMAIN EnsOutput : EnsOutput[k].date # d
        /\ ens_days >= Cardinality(EnsDates) =>
              \A d \in EnsDates :
                 (HighsInRange(d) # {} \/ LowsInRange(d) # {}) =>
                     \E k \in DOMAIN EnsOutput : EnsOutput[k].date = d

\* C9 witness: of two days, the one without any in-range temperature was
\* omitted and the other one emitted.
C9_Witness ==
    /\ EnsDone
    /\ Len(EnsOutput) = 1
    /\ \E d \in EnsDates :
          /\ HighsInRange(d) = {} /\ LowsInRange(d) = {}
          /\ EnsOutput[1].date # d

\* C10: for each emitted day, high_f is null when no source high is in
\* [-40, 130] and otherwise the mean of exactly the in-range highs rounded
\* to one decimal; low_f is the mean of exactly the lows in [-60, 95]
\* rounded to one decimal, or null when there is none or when that mean
\* lies above high_f.
C10_MeanOfInRange ==
    EnsDone =>
        \A k \in DOMAIN EnsOutput :
            LET e == EnsOutput[k]
                H == HighsInRange(e.date)
                L == LowsInRange(e.date) IN
            /\ e.high_f = None <=> H = {}
            /\ H # {} => IsMeanTenths(e.high_f[1], HighTotal(H), Cardinality(H))
            /\ L = {} => e.low_f = None
            /\ (L # {} /\ e.low_f # None) =>
                   IsMeanTenths(e.low_f[1], LowTotal(L), Cardinality(L))
            /\ (L # {} /\ e.low_f = None) =>
                   /\ e.high_f # None
                   /\ \E m \in MeanCandidates(LowTotal(L), Cardinality(L)) : m > e.high_f[1]

\* C10 witness: highs 82 and 84 with an out-of-range 131 beside them gave
\* 83.0, lows 60 and 59 beside an out-of-range -61 gave 59.5.
C10_Witness ==
    /\ EnsDone
    /\ ens_records = << Rec(1, "nbm_grib", Some(82), Some(60), Some(40)),
                        Rec(1, "nbm_grib", Some(131), Some(-61), None),
                        Rec(1, "nws_rss", Some(84), Some(59), Some(60)) >>
    /\ Len(EnsOutput) = 1
    /\ EnsOutput[1].high_f = Some(830)
    /\ EnsOutput[1].low_f = Some(595)

(***************************************************************************)
(* The reducer over records that differ in PoP, source, precipitation type *)
(* and wind text, over three dates.                                        *)
(***************************************************************************)
\* Records as the ingestors build them: PoP as read from the feed (nothing
\* upstream bounds it by 100), precipitation labels inside and outside
\* PRECIP_PRIORITY, wind phrases and notes, and a day without temperatures.
MixRecords ==
    { SourceDailyRecord(1, "nws_rss", Some(95), Some(30), Some(150),
                        Some("Rain"), Some(<<"Breezy">>), << >>),
      SourceDailyRecord(1, "nbm_grib", Some(96), Some(27), Some(40),
                        None, None, << >>),
      SourceDailyRecord(1, "nws_gridpoint", None, None, None,
                        Some("Snow"), None, <<"Gusts", "to", "30", "mph">>),
      SourceDailyRecord(1, "nws_ndfd", Some(84), Some(35), Some(100),
                        Some("Fog"), None, << >>),
      SourceDailyRecord(1, "nbm_grib", Some(100), Some(40), Some(0),
                        Some("Haze"), Some(<<"Calm">>), << >>),
      SourceDailyRecord(1, "nws_ndfd", None, Some(33), None,
                        Some("Haze"), None, <<"Sunny">>),
      SourceDailyRecord(2, "nbm_grib", None, None, Some(70),
                        Some("Rain"), None, << >>),
      SourceDailyRecord(2, "nws_gridpoint", Some(125), Some(36), None,
                        Some("Fog"), None, << >>),
      SourceDailyRecord(3, "nws_rss", Some(80), Some(32), Some(20),
                        Some("Thunderstorms"), Some(<<"Windy">>), << >>),
      SourceDailyRecord(3, "nws_gridpoint", Some(79), Some(28), None,
                        Some("Chance Rain"), None, << >>) }

MixDaysArgs == {0, 1, 2, 3}

EnsembleMixInit ==
    /\ ens_records \in UNION {[1 .. n -> MixRecords] : n \in 0 .. MaxRecs}
    /\ ens_days \in MixDaysArgs
    /\ ens_out = None
    /\ ens_pc = "input"
    /\ now = 0 /\ ttl = 0 /\ files = [k \in CacheKeys |-> NoFile] /\ dirs = {}
    /\ lastFetch = [k \in CacheKeys |-> None] /\ op = NoOp
    /\ settings = None /\ order = << >> /\ pc = "idle"
    /\ idx = 0 /\ records = << >> /\ sources_ok = << >>
    /\ sources_failed = << >> /\ fetch_log = << >> /\ rows = << >>
    /\ ehs_heat = None /\ ehs_freeze = None
    /\ grib_now = 0 /\ grib_cfg = None /\ grib_cycle = None /\ grib_pc = "idle"
    /\ grib_call = None /\ grib_calls = << >>
    /\ parse_in = None /\ parse_out = None /\ feed_op = None

SpecEnsembleMix == EnsembleMixInit /\ [][EnsembleNext]_vars

\* the input records of date d, in input order
DayRecords(d) == SelectSeq(ens_records, LAMBDA r : r.date = d)

\* C11: for every day aggregated, the emitted pop_pct is null or a value in
\* [0, 100] (here in tenths: 0 .. 1000), whatever records are handed in.
C11_PopInRange ==
    EnsDone =>
        \A k \in DOMAIN EnsOutput :
            \/ EnsOutput[k].pop_pct = None
            \/ /\ EnsOutput[k].pop_pct[1] >= 0
               /\ EnsOutput[k].pop_pct[1] <= 10 * 100

\* C12: for every emitted DailyEnsemble, sources holds exactly the source
\* identifiers of the day's records, in strictly ascending order (sorted and
\* duplicate-free), sources_count is its length and low_confidence holds iff
\* sources_count < 2.
C12_SourcesSortedUnique ==
    EnsDone =>
        \A k \in DOMAIN EnsOutput :
            LET e == EnsOutput[k]
                day == DayRecords(e.date) IN
            /\ {e.sources[i] : i \in DOMAIN e.sources}
                   = {day[i].source : i \in DOMAIN day}
            /\ \A i, j \in DOMAIN e.sources :
                   i < j => SourceRank(e.sources[i]) < SourceRank(e.sources[j])
            /\ e.sources_count = Len(e.sources)
            /\ e.low_confidence <=> (e.sources_count < 2)

\* C12 witness: three records from two sources, given out of order with one
\* source twice, are listed as the two sorted identifiers, not low confidence.
C12_Witness ==
    /\ EnsDone
    /\ Len(ens_records) = 3
    /\ ens_records[1].source = "nws_rss"
    /\ ens_records[2].source = "nbm_grib"
    /\ ens_records[3].source = "nbm_grib"
    /\ Len(EnsOutput) = 1
    /\ EnsOutput[1].sources = <<"nbm_grib", "nws_rss">>
    /\ EnsOutput[1].sources_count = 2
    /\ ~EnsOutput[1].low_confidence

\* the non-null precip_type values of the records of date d, in input order
DayPrecipTypes(d) ==
    LET present == SelectSeq(DayRecords(d), LAMBDA r : r.precip_type # None) IN
    [i \in 1 .. Len(present) |-> present[i].precip_type[1]]

\* the positions of PRECIP_PRIORITY whose label occurs among the values
PriorityHits(values) ==
    {p \in DOMAIN PRECIP_PRIORITY :
        \E i \in DOMAIN values : values[i] = PRECIP_PRIORITY[p]}

\* C13: the precip_type of an emitted day is the highest-priority label of
\* the fixed list among the day's non-null source values; when no value is
\* in the list it is the most frequent value, the earliest in input order
\* among equally frequent ones; when every value is null it is null.
C13_DominantPrecip ==
    EnsDone =>
        \A k \in DOMAIN EnsOutput :
            LET e == EnsOutput[k]
                values == DayPrecipTypes(e.date)
                hits == PriorityHits(values) IN
            /\ values = << >> => e.precip_type = None
            /\ hits # {} =>
                  /\ e.precip_type # None
                  /\ \E p \in hits :
                        /\ e.precip_type[1] = PRECIP_PRIORITY[p]
                        /\ \A q \in hits : p <= q
            /\ (values # << >> /\ hits = {}) =>
                  /\ e.precip_type # None
                  /\ \E i \in DOMAIN values :
                        /\ e.precip_type[1] = values[i]
                        /\ \A j \in DOMAIN values :
                              Cardinality({x \in DOMAIN values : values[x] = values[j]})
                                  <= Cardinality({x \in DOMAIN values : values[x] = values[i]})
                        /\ \A j \in DOMAIN values :
                              (/\ j < i
                               /\ Cardinality({x \in DOMAIN values : values[x] = values[j]})
                                    = Cardinality({x \in DOMAIN values : values[x] = values[i]}))
                              => values[j] = values[i]

\* C13 witness: Haze then Fog, once each and neither in the list, gave Haze;
\* (a day with Rain and Snow gives Snow: C13_Witness_RainSnow).
C13_Witness ==
    /\ EnsDone
    /\ Len(EnsOutput) = 1
    /\ DayPrecipTypes(EnsOutput[1].date) = <<"Haze", "Fog">>
    /\ EnsOutput[1].precip_type = Some("Haze")

C13_Witness_RainSnow ==
    /\ EnsDone
    /\ Len(EnsOutput) = 1
    /\ DayPrecipTypes(EnsOutput[1].date) = <<"Rain", "Snow">>
    /\ EnsOutput[1].precip_type = Some("Snow")

\* the dates of the input with an in-range temperature (the emittable days)
EmittableDates == {d \in EnsDates : HighsInRange(d) # {} \/ LowsInRange(d) # {}}

\* C14: for any days >= 0 the reducer returns at most days records, in
\* strictly ascending date order (hence one per date), and they are the
\* first days emittable days of the input.
C14_AtMostDays ==
    EnsDone =>
        /\ Len(EnsOutput) <= ens_days
        /\ \A i, j \in DOMAIN EnsOutput : i < j => EnsOutput[i].date < EnsOutput[j].date
        /\ LET out == {EnsOutput[k].date : k \in DOMAIN EnsOutput} IN
           /\ out \subseteq EmittableDates
           /\ \A d \in EmittableDates :
                 d \in out <=> Cardinality({x \in EmittableDates : x < d}) < ens_days

\* the record list reordered by the permutation p of its positions
Permuted(recs, p) == [i \in DOMAIN recs |-> recs[p[i]]]

\* the fields of an emitted day that do not depend on the order of the input
OrderFreeFields(e) ==
    [date |-> e.date, high_f |-> e.high_f, low_f |-> e.low_f, pop_pct |-> e.pop_pct,
     sources |-> e.sources, sources_count |-> e.sources_count,
     low_confidence |-> e.low_confidence, heat_category |-> e.heat_category,
     freeze_risk_badge |-> e.freeze_risk_badge]

\* C15: the reducer applied to any permutation of the record list emits the
\* same days with the same high_f, low_f, pop_pct, sources, sources_count,
\* low_confidence, heat_category and freeze_risk_badge, and the same
\* precip_type on every day that has a priority-list label among its records.
C15_PermutationInvariant ==
    EnsDone =>
        \A p \in Permutations(DOMAIN ens_records) :
            LET other == build_site_ensembles("Home", Permuted(ens_records, p), ens_days) IN
            /\ Len(other) = Len(EnsOutput)
            /\ \A k \in DOMAIN EnsOutput :
                  /\ OrderFreeFields(other[k]) = OrderFreeFields(EnsOutput[k])
                  /\ PriorityHits(DayPrecipTypes(EnsOutput[k].date)) # {}
                        => other[k].precip_type = EnsOutput[k].precip_type

\* C15 witness: three records of one day with the highs 95, 84, 100 and the
\* labels Rain, Fog, Haze, whose reversal is a different list, were reduced
\* to the mean 93.0 and Rain.
C15_Witness ==
    /\ EnsDone
    /\ Len(ens_records) = 3
    /\ ens_records[1].date = ens_records[2].date
    /\ ens_records[2].date = ens_records[3].date
    /\ ens_records[1].high_f = Some(95)
    /\ ens_records[2].high_f = Some(84)
    /\ ens_records[3].high_f = Some(100)
    /\ Permuted(ens_records, [i \in 1 .. 3 |-> 4 - i]) # ens_records
    /\ Len(EnsOutput) = 1
    /\ EnsOutput[1].high_f = Some(930)
    /\ EnsOutput[1].precip_type = Some("Rain")

(***************************************************************************)
(* EHS classification: processing/ehs.py, called directly and through the  *)
(* reducer.  Temperatures are in tenths of a degree.                       *)
(***************************************************************************)
\* Arguments of classify_heat: null, and values at, just below and between
\* the thresholds.
HeatInputs ==
    {None} \cup {Some(t) : t \in {-400, 700, 799, 800, 899, 900, 950, 999,
                                  1000, 1249, 1250, 1300}}

\* Arguments of classify_freeze.
FreezeInputs ==
    {None} \cup {Some(t) : t \in {-600, 270, 280, 281, 320, 321, 360, 361, 400}}

\* One-record inputs of the reducer whose temperatures fall in each band.
EhsRecords ==
    { SourceDailyRecord(1, "nbm_grib", h, l, None, None, w, << >>) :
        h \in {None, Some(79), Some(80), Some(95), Some(100), Some(125)},
        l \in {None, Some(28), Some(29), Some(32), Some(33), Some(37)},
        w \in {None, Some(<<"Breezy">>)} }

EhsInit ==
    /\ ens_records \in {<<r>> : r \in EhsRecords}
    /\ ens_days = 1
    /\ ens_out = None
    /\ ens_pc = "input"
    /\ ehs_heat = None /\ ehs_freeze = None
    /\ now = 0 /\ ttl = 0 /\ files = [k \in CacheKeys |-> NoFile] /\ dirs = {}
    /\ lastFetch = [k \in CacheKeys |-> None] /\ op = NoOp
    /\ settings = None /\ order = << >> /\ pc = "idle"
    /\ idx = 0 /\ records = << >> /\ sources_ok = << >>
    /\ sources_failed = << >> /\ fetch_log = << >> /\ rows = << >>
    /\ grib_now = 0 /\ grib_cfg = None /\ grib_cycle = None /\ grib_pc = "idle"
    /\ grib_call = None /\ grib_calls = << >>
    /\ parse_in = None /\ parse_out = None /\ feed_op = None

\* One call classify_heat(high_f).
ClassifyHeat ==
    /\ \E h \in HeatInputs :
          ehs_heat' = Some([high_f |-> h,
                            category |-> classify_heat(h).category,
                            guidance |-> classify_heat(h).guidance])
    /\ UNCHANGED <<ehs_freeze, cacheVars, pipeVars, ensVars, gribVars, parseVars, feedVars>>

\* One call classify_freeze(low_f, breezy).
ClassifyFreeze ==
    /\ \E l \in FreezeInputs, b \in BOOLEAN :
          ehs_freeze' = Some([low_f |-> l, breezy |-> b,
                              badge |-> classify_freeze(l, b).badge,
                              guidance |-> classify_freeze(l, b).guidance])
    /\ UNCHANGED <<ehs_heat, cacheVars, pipeVars, ensVars, gribVars, parseVars, feedVars>>

EhsNext ==
    \/ ClassifyHeat
    \/ ClassifyFreeze
    \/ Reduce

SpecEhs == EhsInit /\ [][EhsNext]_vars

\* the five fields every guidance mapping has
GuidanceFields ==
    {"continuous_heavy_work_min", "hydration_cups_per_min", "work_rest_min",
     "supervisor_assessments_per_hr", "radio_checkins"}

\* category c and guidance g are what the bands prescribe for the high h
HeatAsBanded(h, c, g) ==
    /\ DOMAIN g = GuidanceFields
    /\ (h = None \/ h[1] < 800) <=> c = None
    /\ c = None =>
          /\ g = DEFAULT_HEAT_GUIDANCE
          /\ g.work_rest_min = "Normal" /\ g.radio_checkins = "start"
    /\ (h # None /\ h[1] >= 1250) <=> c = Some("Extreme Danger")
    /\ (h # None /\ h[1] >= 1000 /\ h[1] < 1250) <=> c = Some("Danger")
    /\ (h # None /\ h[1] >= 900 /\ h[1] < 1000) <=> c = Some("Extreme Caution")
    /\ (h # None /\ h[1] >= 800 /\ h[1] < 900) <=> c = Some("Caution")
    /\ c # None =>
          /\ \E k \in DOMAIN HEAT_BANDS :
                HEAT_BANDS[k].name = c[1] /\ g = HEAT_BANDS[k].guidance
          /\ g.work_rest_min =
                (CASE c[1] = "Extreme Danger" -> "10/20/10"
                   [] c[1] = "Danger" -> "20/30/10"
                   [] c[1] = "Extreme Caution" -> "30/40/10"
                   [] c[1] = "Caution" -> "Normal")

\* C16: classify_heat gives Extreme Danger from 125, Danger on [100, 125),
\* Extreme Caution on [90, 100), Caution on [80, 90), each with its band's
\* guidance, and null with the default guidance for a null high or one
\* below 80; the guidance always has the same five fields; and an emitted
\* DailyEnsemble carries the classification of its own high_f.
C16_HeatBands ==
    /\ ehs_heat # None =>
          HeatAsBanded(ehs_heat[1].high_f, ehs_heat[1].category, ehs_heat[1].guidance)
    /\ EnsDone =>
          \A k \in DOMAIN EnsOutput :
              HeatAsBanded(EnsOutput[k].high_f, EnsOutput[k].heat_category,
                           EnsOutput[k].heat_guidance)

\* C16 witness: a day with high 95 was emitted as Extreme Caution with
\* work_rest_min 30/40/10, and classify_heat(80.0) had given Caution.
C16_Witness ==
    /\ EnsDone
    /\ Len(EnsOutput) = 1
    /\ EnsOutput[1].high_f = Some(950)
    /\ EnsOutput[1].heat_category = Some("Extreme Caution")
    /\ EnsOutput[1].heat_guidance.work_rest_min = "30/40/10"
    /\ ehs_heat # None
    /\ ehs_heat[1].high_f = Some(800)
    /\ ehs_heat[1].category = Some("Caution")

\* C17: classify_freeze gives Hard Freeze up to 28, Freeze on (28, 32],
\* Frost on (32, 36] and (null, null) above 36 or for a null low; the
\* guidance is the badge's fixed string, followed by the wind-chill sentence
\* iff the wind flag is set and the low is at most 32 - never for Frost.
C17_FreezeBadges ==
    ehs_freeze # None =>
        LET l == ehs_freeze[1].low_f
            b == ehs_freeze[1].breezy
            badge == ehs_freeze[1].badge
            g == ehs_freeze[1].guidance IN
        /\ (l = None \/ l[1] > 360) <=> badge = None
        /\ badge = None <=> g = None
        /\ (l # None /\ l[1] <= 280) <=> badge = Some("Hard Freeze")
        /\ (l # None /\ l[1] > 280 /\ l[1] <= 320) <=> badge = Some("Freeze")
        /\ (l # None /\ l[1] > 320 /\ l[1] <= 360) <=> badge = Some("Frost")
        /\ badge # None =>
              /\ g[1][1] = FREEZE_GUIDANCE(badge[1])
              /\ Len(g[1]) \in {1, 2}
              /\ Len(g[1]) = 2 <=> (b /\ l[1] <= 320)
              /\ Len(g[1]) = 2 => g[1][2] = " Wind-chill risk: add face/hand protection."
              /\ badge = Some("Frost") => Len(g[1]) = 1

\* C17 witness: classify_freeze(32.0, breezy) gave Freeze with the wind-chill
\* sentence.
C17_Witness ==
    /\ ehs_freeze # None
    /\ ehs_freeze[1].low_f = Some(320)
    /\ ehs_freeze[1].breezy
    /\ ehs_freeze[1].badge = Some("Freeze")
    /\ Len(ehs_freeze[1].guidance[1]) = 2

\* C17, the other side: classify_freeze(32.1, breezy) gave Frost without it.
C17_Witness_Frost ==
    /\ ehs_freeze # None
    /\ ehs_freeze[1].low_f = Some(321)
    /\ ehs_freeze[1].breezy
    /\ ehs_freeze[1].badge = Some("Frost")
    /\ Len(ehs_freeze[1].guidance[1]) = 1

(***************************************************************************)
(* NBM GRIB ingestor: ingest/grib.py                                       *)
(*                                                                         *)
(* Time is in whole hours UTC; a cycle is the hour it starts at, a date    *)
(* the number of its day.  A fetch is split at its HEAD probes; all field  *)
(* sampling after the cycle is known is one step.                          *)
(***************************************************************************)
CycleStepHours == 6       \* cycles start every 6 hours
CycleWindowHours == 48    \* range(0, 48, 6): how far back candidates go
ProbeFhour == 24          \* the forecast hour whose index is probed
FIELD_WINDOW_HOURS == 12
TMP_SAMPLE_STEP == 3

MaxGribTicks == 1         \* how often the clock advances during a run
GribTickHours == 7        \* hours the clock advances at a time

GribStarts == {48, 53}
GribLatest == 53 + MaxGribTicks * GribTickHours
GribDaysChoices == {0, 1, 2}
\* UTC offsets of the configured tzinfo (America/New_York in winter, Tokyo)
GribOffsets == {-5, 9}

\* site_map of run_pipeline, in iteration order
NbmSites == <<"Home", "Work">>

\* _build_candidate_cycles
_build_candidate_cycles(now_hours) ==
    LET rounded == ((now_hours % 24) \div CycleStepHours) * CycleStepHours
        base == (now_hours \div 24) * 24 + rounded
        steps == (CycleWindowHours + CycleStepHours - 1) \div CycleStepHours
    IN  [k \in 1 .. steps |-> base - (k - 1) * CycleStepHours]

\* _idx_url: the URL is determined by the cycle (ymd, hour) and the forecast hour
_idx_url(cycle, fhour) == [cycle |-> cycle, fhour |-> fhour]

\* What session.head can do: answer with a status, or raise.
HeadOutcomes ==
    { [raised |-> FALSE, status_code |-> 200],
      [raised |-> FALSE, status_code |-> 404],
      [raised |-> TRUE, status_code |-> 0] }

\* A plausible slip: any response, whatever its status, accepts the candidate.
_select_cycle_probe_any_status(candidate, is_last, resp) ==
    IF resp.raised
    THEN [next |-> "raise", cycle |-> None, error |-> "ConnectionError"]
    ELSE [next |-> "return", cycle |-> Some(candidate), error |-> ""]

\* _select_cycle, one round of the loop (lines 84-92) and, after the last
\* round, line 93.
_select_cycle_probe(candidate, is_last, resp) ==
    IF resp.raised
    THEN [next |-> "raise", cycle |-> None, error |-> "ConnectionError"]
    ELSE IF resp.status_code = 200
    THEN [next |-> "return", cycle |-> Some(candidate), error |-> ""]
    ELSE IF is_last
    THEN [next |-> "raise", cycle |-> None, error |-> "RuntimeError"]
    ELSE [next |-> "continue", cycle |-> None, error |-> ""]

\* A plausible slip: the latch is never consulted.
_select_cycle_latched_never(cycle) == FALSE

\* _select_cycle, lines 82-83: if self._cycle: return self._cycle
_select_cycle_latched(cycle) == ~IsNone(cycle)

\* kelvin_to_f, on hundredths of a kelvin, giving whole degrees (exact for
\* the sample values below)
kelvin_to_f(value) == ((value - 27315) * 9) \div 500 + 32

\* The fields a cycle may carry.
NbmFields == {"TMAX", "MAXT", "TMP", "TMIN", "MINT", "POP12"}

\* What the GRIB slice of a field holds at the site: temperatures in
\* hundredths of a kelvin, PoP in percent.
UpstreamValue(short_name, fhour) ==
    CASE short_name = "TMAX" -> 27315 + 500 * 6
      [] short_name = "MAXT" -> 27315 + 500 * 5
      [] short_name = "TMIN" -> 27315 + 500 * 2
      [] short_name = "MINT" -> 27315 + 500 * 3
      [] short_name = "TMP" -> 27315 + 500 * (1 + ((fhour \div TMP_SAMPLE_STEP) % 4))
      [] short_name = "POP12" -> IF fhour % 24 = 0 THEN 30 ELSE 60

\* _sample_field for one site: the converted value, or an exception when
\* the field cannot be loaded (index, slice or decoding failed).  The
\* _select_cycle() call inside it is served by the latch.
_sample_field(avail, fhour, short_name, converter) ==
    IF short_name \notin avail
    THEN [raised |-> TRUE, value |-> None]
    ELSE [raised |-> FALSE,
          value |-> Some(IF converter = "kelvin_to_f"
                         THEN kelvin_to_f(UpstreamValue(short_name, fhour))
                         ELSE UpstreamValue(short_name, fhour))]

\* A plausible slip: the except clause is missing.
_sample_optional_uncaught(avail, fhour, short_name, converter) ==
    _sample_field(avail, fhour, short_name, converter)

\* _sample_optional: any exception becomes None
_sample_optional(avail, fhour, short_name, converter) ==
    LET r == _sample_field(avail, fhour, short_name, converter) IN
    IF r.raised THEN [raised |-> FALSE, value |-> None] ELSE r

MinOfSet(S) == CHOOSE m \in S : \A x \in S : m <= x
MaxOfSet(S) == CHOOSE m \in S : \A x \in S : x <= m

\* _derive_daily_temp: the hours sampled
DeriveHours(day_idx) ==
    LET start_hour == day_idx * 24
        end_hour == (day_idx + 1) * 24
        first == Max(3, start_hour + 3) IN
    (IF start_hour = 0 THEN {0} ELSE {})
        \cup {h \in first .. end_hour : (h - first) % TMP_SAMPLE_STEP = 0}

\* _derive_daily_temp
_derive_daily_temp(avail, day_idx, mode) ==
    LET samples == [h \in DeriveHours(day_idx) |->
                        _sample_optional(avail, h, "TMP", "kelvin_to_f")]
        temps == {samples[h].value[1] : h \in {x \in DOMAIN samples : samples[x].value # None}}
    IN  [raised |-> \E h \in DOMAIN samples : samples[h].raised,
         value |-> IF temps = {} THEN None
                   ELSE IF mode = "high" THEN Some(MaxOfSet(temps))
                   ELSE Some(MinOfSet(temps)),
         hours |-> SortSet(DeriveHours(day_idx))]

\* format_day_label: "%a %b %d" of a date
format_day_label(day) == [weekday |-> day % 7, month_day |-> day]

\* one attempt to sample a field, as the log of a day's body records it
Attempt(stage, short_name, fhour) ==
    [stage |-> stage, short_name |-> short_name, fhour |-> fhour]

\* the TMP samples _derive_daily_temp takes, in order
DerivedAttempts(stage, derived) ==
    [i \in DOMAIN derived.hours |-> Attempt(stage, "TMP", derived.hours[i])]

\* A plausible slip: MAXT is sampled even when TMAX delivered.
HighChain_eager(tmax, maxt, derived, fhour) ==
    IF ~tmax.raised
    THEN [raised |-> FALSE, value |-> tmax.value,
          attempts |-> <<Attempt("high", "TMAX", fhour), Attempt("high", "MAXT", fhour)>>]
    ELSE IF ~maxt.raised
    THEN [raised |-> FALSE, value |-> maxt.value,
          attempts |-> <<Attempt("high", "TMAX", fhour), Attempt("high", "MAXT", fhour)>>]
    ELSE [raised |-> derived.raised, value |-> derived.value,
          attempts |-> <<Attempt("high", "TMAX", fhour), Attempt("high", "MAXT", fhour)>>
                       \o DerivedAttempts("high", derived)]

\* fetch, lines 246-263: TMAX, else MAXT, else the derived high.  An
\* exception of either sample is caught; one of _derive_daily_temp is not.
\* tmax, maxt and derived are what each stage gives if it is run; attempts
\* lists the stages that are run.
HighChain(tmax, maxt, derived, fhour) ==
    IF ~tmax.raised
    THEN [raised |-> FALSE, value |-> tmax.value,
          attempts |-> <<Attempt("high", "TMAX", fhour)>>]
    ELSE IF ~maxt.raised
    THEN [raised |-> FALSE, value |-> maxt.value,
          attempts |-> <<Attempt("high", "TMAX", fhour), Attempt("high", "MAXT", fhour)>>]
    ELSE [raised |-> derived.raised, value |-> derived.value,
          attempts |-> <<Attempt("high", "TMAX", fhour), Attempt("high", "MAXT", fhour)>>
                       \o DerivedAttempts("high", derived)]

\* fetch, lines 265-280: TMIN, else MINT, else the derived low.
LowChain(tmin, mint, derived, fhour) ==
    IF ~tmin.raised
    THEN [raised |-> FALSE, value |-> tmin.value,
          attempts |-> <<Attempt("low", "TMIN", fhour)>>]
    ELSE IF ~mint.raised
    THEN [raised |-> FALSE, value |-> mint.value,
          attempts |-> <<Attempt("low", "TMIN", fhour), Attempt("low", "MINT", fhour)>>]
    ELSE [raised |-> derived.raised, value |-> derived.value,
          attempts |-> <<Attempt("low", "TMIN", fhour), Attempt("low", "MINT", fhour)>>
                       \o DerivedAttempts("low", derived)]

\* fetch, lines 281-297: rec.pop_pct = max(rec.pop_pct or 0, max(pop_values))
PopChain(pops) ==
    LET present == {h \in DOMAIN pops : pops[h].value # None} IN
    [raised |-> \E h \in DOMAIN pops : pops[h].raised,
     value |-> IF present = {} THEN None
               ELSE Some(Max(0, MaxOfSet({pops[h].value[1] : h \in present})))]

\* the SourceDailyRecord of one day, and whether an exception left the body
DayResult(site, target_day, high, low, pop) ==
    [raised |-> high.raised \/ low.raised \/ pop.raised,
     attempts |-> high.attempts \o low.attempts,
     record |-> [site_name |-> site,
                 date |-> target_day,
                 label |-> format_day_label(target_day),
                 source |-> "nbm_grib",
                 high_f |-> high.value,
                 low_f |-> low.value,
                 pop_pct |-> pop.value]]

\* fetch, the body of the loop for one day_idx (lines 230-306, without the
\* QPF and snow amounts and their notes); attempts is the order in which the
\* temperature fields were sampled.
NbmDay(site, base_day, day_idx, avail) ==
    DayResult(site, base_day + day_idx,
              HighChain(_sample_field(avail, (day_idx + 1) * 24, "TMAX", "kelvin_to_f"),
                        _sample_field(avail, (day_idx + 1) * 24, "MAXT", "kelvin_to_f"),
                        _derive_daily_temp(avail, day_idx, "high"),
                        (day_idx + 1) * 24),
              LowChain(_sample_field(avail, day_idx * 24 + FIELD_WINDOW_HOURS,
                                     "TMIN", "kelvin_to_f"),
                       _sample_field(avail, day_idx * 24 + FIELD_WINDOW_HOURS,
                                     "MINT", "kelvin_to_f"),
                       _derive_daily_temp(avail, day_idx, "low"),
                       day_idx * 24 + FIELD_WINDOW_HOURS),
              PopChain([h \in {Max(day_idx * 24 + FIELD_WINDOW_HOURS, FIELD_WINDOW_HOURS),
                               (day_idx + 1) * 24}
                           |-> _sample_optional(avail, h, "POP12", "")]))

\* fetch, lines 307-308: the dictionary by date, returned in date order and
\* cut to days entries (built[i] is what the loop made for day_idx = i)
FetchResult(days, built) ==
    IF \E i \in DOMAIN built : built[i].raised
    THEN [raised |-> TRUE, records |-> << >>, attempts |-> << >>]
    ELSE LET dates == SortSet({built[i].record.date : i \in DOMAIN built})
             ordered == SubSeq(dates, 1, IF Len(dates) < days THEN Len(dates)
                                         ELSE Max(days, 0))
             pick == [k \in DOMAIN ordered |->
                         CHOOSE i \in DOMAIN built :
                             /\ built[i].record.date = ordered[k]
                             /\ \A j \in DOMAIN built :
                                   built[j].record.date = ordered[k] => i <= j] IN
         [raised |-> FALSE,
          records |-> [k \in DOMAIN ordered |-> built[pick[k]].record],
          attempts |-> [k \in DOMAIN ordered |-> built[pick[k]].attempts]]

\* fetch after _select_cycle has returned (lines 226-308): base_day is the
\* cycle instant's date at the given UTC offset.
nbm_fetch_body(site, cycle, days, utc_offset, avail) ==
    FetchResult(days, [i \in 0 .. days - 1 |->
                           NbmDay(site, (cycle + utc_offset) \div 24, i, avail)])

\* Which fields the selected cycle can deliver at the site.
FieldScenarios ==
    { NbmFields, {}, {"MAXT", "MINT"}, {"TMP"}, {"TMAX", "TMIN", "POP12"}, {"POP12"} }

GribInit ==
    /\ grib_now \in GribStarts
    /\ grib_cfg \in [days : GribDaysChoices, utc_offset : GribOffsets]
    /\ grib_cycle = None
    /\ grib_pc = "ready"
    /\ grib_call = None
    /\ grib_calls = << >>
    /\ now = 0 /\ ttl = 0 /\ files = [k \in CacheKeys |-> NoFile] /\ dirs = {}
    /\ lastFetch = [k \in CacheKeys |-> None] /\ op = NoOp
    /\ settings = None /\ order = << >> /\ pc = "idle"
    /\ idx = 0 /\ records = << >> /\ sources_ok = << >>
    /\ sources_failed = << >> /\ fetch_log = << >> /\ rows = << >>
    /\ ens_records = << >> /\ ens_days = 0 /\ ens_out = None /\ ens_pc = "idle"
    /\ ehs_heat = None /\ ehs_freeze = None
    /\ parse_in = None /\ parse_out = None /\ feed_op = None

\* The clock advances between two fetches.
GribTick ==
    /\ grib_pc = "ready"
    /\ grib_now + GribTickHours <= GribLatest
    /\ grib_now' = grib_now + GribTickHours
    /\ UNCHANGED <<grib_cfg, grib_cycle, grib_pc, grib_call, grib_calls,
                   cacheVars, pipeVars, ensVars, ehsVars, parseVars, feedVars>>

\* The driver calls nbm.fetch(site) for the next site: _select_cycle returns
\* the latched cycle, or reads the clock and starts probing.
BeginFetch ==
    /\ grib_pc = "ready"
    /\ Len(grib_calls) < Len(NbmSites)
    /\ LET latched == _select_cycle_latched(grib_cycle) IN
       /\ grib_call' = Some([site |-> NbmSites[Len(grib_calls) + 1],
                             at |-> grib_now,
                             candidates |-> IF latched THEN << >>
                                            ELSE _build_candidate_cycles(grib_now),
                             probes |-> << >>])
       /\ grib_pc' = IF latched THEN "body" ELSE "probe"
    /\ UNCHANGED <<grib_now, grib_cfg, grib_cycle, grib_calls,
                   cacheVars, pipeVars, ensVars, ehsVars, parseVars, feedVars>>

\* One HEAD request of _select_cycle on the next candidate.
HeadProbe ==
    /\ grib_pc = "probe"
    /\ LET c == Val(grib_call)
           k == Len(c.probes) + 1
           candidate == c.candidates[k] IN
       \E resp \in HeadOutcomes :
          LET r == _select_cycle_probe(candidate, k = Len(c.candidates), resp)
              probes == Append(c.probes, [url |-> _idx_url(candidate, ProbeFhour),
                                          raised |-> resp.raised,
                                          status_code |-> resp.status_code]) IN
          /\ grib_cycle' = IF r.next = "return" THEN r.cycle ELSE grib_cycle
          /\ grib_pc' = CASE r.next = "continue" -> "probe"
                          [] r.next = "return" -> "body"
                          [] r.next = "raise" -> "ready"
          /\ grib_call' = IF r.next = "raise" THEN None
                          ELSE Some([c EXCEPT !.probes = probes])
          /\ grib_calls' = IF r.next = "raise"
                           THEN Append(grib_calls,
                                       [site |-> c.site, at |-> c.at,
                                        candidates |-> c.candidates,
                                        probes |-> probes, cycle |-> None,
                                        raised |-> TRUE, error |-> r.error,
                                        avail |-> {}, records |-> << >>,
                                        attempts |-> << >>])
                           ELSE grib_calls
    /\ UNCHANGED <<grib_now, grib_cfg, cacheVars, pipeVars, ensVars, ehsVars, parseVars, feedVars>>

\* The rest of fetch, once the cycle is known.
FetchBody ==
    /\ grib_pc = "body"
    /\ \E avail \in FieldScenarios :
          LET c == Val(grib_call)
              b == nbm_fetch_body(c.site, Val(grib_cycle), grib_cfg.days,
                                  grib_cfg.utc_offset, avail) IN
          grib_calls' = Append(grib_calls,
                               [site |-> c.site, at |-> c.at,
                                candidates |-> c.candidates,
                                probes |-> c.probes, cycle |-> grib_cycle,
                                raised |-> b.raised,
                                error |-> IF b.raised THEN "Exception" ELSE "",
                                avail |-> avail, records |-> b.records,
                                attempts |-> b.attempts])
    /\ grib_call' = None
    /\ grib_pc' = "ready"
    /\ UNCHANGED <<grib_now, grib_cfg, grib_cycle, cacheVars, pipeVars, ensVars, ehsVars, parseVars, feedVars>>

GribNext ==
    \/ GribTick
    \/ BeginFetch
    \/ HeadProbe
    \/ FetchBody

SpecGrib == GribInit /\ [][GribNext]_vars

\* ---- what the claims about the ingestor are stated over ----
\* the probe logs of the model: of the fetch in progress (if it is
\* selecting or has selected by probing) and of the fetches that are over
SelectionLogs ==
    {[at |-> grib_calls[i].at, candidates |-> grib_calls[i].candidates,
      probes |-> grib_calls[i].probes] :
         i \in {j \in DOMAIN grib_calls : grib_calls[j].candidates # << >>}}
    \cup (IF grib_call # None /\ grib_call[1].candidates # << >>
          THEN {[at |-> grib_call[1].at, candidates |-> grib_call[1].candidates,
                 probes |-> grib_call[1].probes]}
          ELSE {})

\* probe k of a log was answered with status 200
Returned200(probes, k) == ~probes[k].raised /\ probes[k].status_code = 200

\* C18: a selection probes the f024 index of the candidates in order, from
\* the current UTC hour rounded down to a multiple of 6 back to 42 hours
\* earlier in steps of 6 (8 candidates); it accepts the first candidate
\* answering 200 and probes nothing after it; and it fails iff no candidate
\* answered 200 (every one of the 8 answered otherwise, or a request raised).
C18_CycleSelection ==
    /\ \A log \in SelectionLogs :
          /\ Len(log.candidates) = 8
          /\ log.candidates[1] % 6 = 0
          /\ log.candidates[1] <= log.at /\ log.at < log.candidates[1] + 6
          /\ \A k \in 1 .. 8 : log.candidates[k] = log.candidates[1] - 6 * (k - 1)
          /\ log.candidates[8] = log.candidates[1] - 42
          /\ Len(log.probes) <= 8
          /\ \A k \in DOMAIN log.probes :
                /\ log.probes[k].url = [cycle |-> log.candidates[k], fhour |-> 24]
                /\ k < Len(log.probes) =>
                      ~log.probes[k].raised /\ log.probes[k].status_code # 200
    /\ \A i \in DOMAIN grib_calls :
          LET c == grib_calls[i]
              failed == c.cycle = None IN
          c.candidates # << >> =>
              /\ failed <=> ~\E k \in DOMAIN c.probes : Returned200(c.probes, k)
              /\ failed <=> (c.raised /\ c.error \in {"RuntimeError", "ConnectionError"})
              /\ ~failed =>
                    /\ Returned200(c.probes, Len(c.probes))
                    /\ c.cycle = Some(c.candidates[Len(c.probes)])
              /\ (failed /\ \A k \in DOMAIN c.probes : ~c.probes[k].raised) =>
                    Len(c.probes) = 8
    /\ (grib_pc = "body" /\ grib_call[1].candidates # << >>) =>
          /\ Returned200(grib_call[1].probes, Len(grib_call[1].probes))
          /\ grib_cycle = Some(grib_call[1].candidates[Len(grib_call[1].probes)])

\* C18 witness: at hour 53 the candidates 48 and 42 answered 404 and 36
\* answered 200; the fetch went on with cycle 36 after exactly three probes.
C18_Witness ==
    /\ Len(grib_calls) >= 1
    /\ grib_calls[1].at = 53
    /\ Len(grib_calls[1].probes) = 3
    /\ grib_calls[1].probes[1] = [url |-> [cycle |-> 48, fhour |-> 24],
                                  raised |-> FALSE, status_code |-> 404]
    /\ grib_calls[1].probes[3] = [url |-> [cycle |-> 36, fhour |-> 24],
                                  raised |-> FALSE, status_code |-> 200]
    /\ grib_calls[1].cycle = Some(36)

\* C18, the failing side: all 8 candidates answered 404 and the fetch raised.
C18_Witness_NoCycle ==
    /\ Len(grib_calls) >= 1
    /\ Len(grib_calls[1].probes) = 8
    /\ grib_calls[1].probes[8].status_code = 404
    /\ grib_calls[1].raised
    /\ grib_calls[1].error = "RuntimeError"

\* C19: a fetch whose cycle selection succeeded does not raise and returns
\* exactly days records, for the consecutive local dates from the date of
\* the cycle instant, each with the site, its date, the date's label and
\* source nbm_grib; a field is null exactly when no member of its fallback
\* chain could be sampled.
C19_FetchAlwaysEmitsDays ==
    \A i \in DOMAIN grib_calls :
        LET c == grib_calls[i] IN
        c.cycle # None =>
            /\ ~c.raised
            /\ Len(c.records) = grib_cfg.days
            /\ \A k \in DOMAIN c.records :
                  LET r == c.records[k] IN
                  /\ r.site_name = c.site
                  /\ r.source = "nbm_grib"
                  /\ 24 * (r.date - (k - 1)) <= c.cycle[1] + grib_cfg.utc_offset
                  /\ c.cycle[1] + grib_cfg.utc_offset < 24 * (r.date - (k - 1) + 1)
                  /\ r.label = format_day_label(r.date)
                  /\ r.high_f = None <=> c.avail \cap {"TMAX", "MAXT", "TMP"} = {}
                  /\ r.low_f = None <=> c.avail \cap {"TMIN", "MINT", "TMP"} = {}
                  /\ r.pop_pct = None <=> "POP12" \notin c.avail

\* C19 witness: with no field available at all, a two-day fetch for Home
\* returned two records for consecutive dates, all three values null.
C19_Witness ==
    /\ Len(grib_calls) >= 1
    /\ grib_cfg.days = 2
    /\ grib_calls[1].cycle # None
    /\ grib_calls[1].avail = {}
    /\ ~grib_calls[1].raised
    /\ Len(grib_calls[1].records) = 2
    /\ grib_calls[1].records[2].date = grib_calls[1].records[1].date + 1
    /\ \A k \in 1 .. 2 :
          /\ grib_calls[1].records[k].site_name = "Home"
          /\ grib_calls[1].records[k].high_f = None
          /\ grib_calls[1].records[k].low_f = None
          /\ grib_calls[1].records[k].pop_pct = None

\* the fetches before number i that ended with an accepted cycle
AcceptedBefore(i) == {j \in 1 .. i - 1 : grib_calls[j].cycle # None}

\* C20: after a fetch has accepted a cycle, every later fetch on the
\* ingestor uses that cycle and sends no HEAD probe; as long as none has,
\* the latch is unset and every fetch probes.
C20_CycleLatched ==
    /\ \A i \in DOMAIN grib_calls :
          /\ AcceptedBefore(i) # {} =>
                /\ grib_calls[i].probes = << >>
                /\ \A j \in AcceptedBefore(i) : grib_calls[i].cycle = grib_calls[j].cycle
          /\ AcceptedBefore(i) = {} => grib_calls[i].probes # << >>
    /\ (\A i \in DOMAIN grib_calls : grib_calls[i].cycle = None) =>
          /\ grib_pc \in {"ready", "probe"} => grib_cycle = None
          /\ (grib_call # None /\ grib_pc = "body") => grib_call[1].probes # << >>
    /\ \A i \in DOMAIN grib_calls :
          grib_calls[i].cycle # None =>
              /\ grib_cycle = grib_calls[i].cycle
              /\ grib_call # None =>
                    grib_pc = "body" /\ grib_call[1].probes = << >>

\* C20 witness: Home's fetch accepted cycle 48; Work's fetch, begun after
\* the clock had moved into the next cycle, used cycle 48 without a probe.
C20_Witness ==
    /\ Len(grib_calls) = 2
    /\ grib_calls[1].cycle = Some(48)
    /\ grib_calls[2].at >= 54
    /\ grib_calls[2].site = "Work"
    /\ grib_calls[2].probes = << >>
    /\ grib_calls[2].cycle = Some(48)

\* C20, the other side: Home's fetch found no cycle, Work's probed again.
C20_Witness_ProbesAgain ==
    /\ Len(grib_calls) = 2
    /\ grib_calls[1].cycle = None
    /\ grib_calls[2].probes # << >>
    /\ grib_calls[2].cycle # None

\* the attempts of one stage ("high" or "low") in a day's log, in order
StageAttempts(attempts, stage) == SelectSeq(attempts, LAMBDA a : a.stage = stage)

\* the hours at which TMP is to be sampled for day index k: k*24+3,
\* k*24+6, ..., (k+1)*24, and hour 0 when k = 0
TmpGrid(k) ==
    {h \in 0 .. (k + 1) * 24 : (h > k * 24 /\ h % 3 = 0) \/ (k = 0 /\ h = 0)}

\* the attempts of a stage are: first at fhour, then second at fhour only if
\* first is unavailable, then TMP once at every hour of the grid only if
\* both are unavailable
StagedInOrder(att, avail, first, second, fhour, k) ==
    /\ Len(att) >= 1
    /\ att[1].short_name = first /\ att[1].fhour = fhour
    /\ Len(att) >= 2 <=> first \notin avail
    /\ Len(att) >= 2 => att[2].short_name = second /\ att[2].fhour = fhour
    /\ Len(att) >= 3 <=> (first \notin avail /\ second \notin avail)
    /\ Len(att) >= 3 =>
          /\ Len(att) = 2 + Cardinality(TmpGrid(k))
          /\ \A i \in 3 .. Len(att) : att[i].short_name = "TMP"
          /\ {att[i].fhour : i \in 3 .. Len(att)} = TmpGrid(k)

\* C22: for day index k, high_f comes from TMAX at (k+1)*24, else MAXT at
\* that hour, else the maximum of the TMP samples; low_f from TMIN at
\* k*24+12, else MINT, else the minimum of the TMP samples; TMP is sampled
\* on the grid k*24+3, ..., (k+1)*24 (and 0 when k = 0); and no stage is
\* attempted after one that produced a value.  (The upstream values are
\* 86 for TMAX, 77 for MAXT, 50 for TMIN, 59 for MINT and 41 to 68 for TMP.)
C22_FallbackOrder ==
    \A i \in DOMAIN grib_calls :
        LET c == grib_calls[i] IN
        (c.cycle # None /\ ~c.raised) =>
            \A n \in DOMAIN c.records :
                LET k == n - 1
                    r == c.records[n] IN
                /\ StagedInOrder(StageAttempts(c.attempts[n], "high"), c.avail,
                                 "TMAX", "MAXT", (k + 1) * 24, k)
                /\ StagedInOrder(StageAttempts(c.attempts[n], "low"), c.avail,
                                 "TMIN", "MINT", k * 24 + 12, k)
                /\ r.high_f = (IF "TMAX" \in c.avail THEN Some(86)
                               ELSE IF "MAXT" \in c.avail THEN Some(77)
                               ELSE IF "TMP" \in c.avail THEN Some(68)
                               ELSE None)
                /\ r.low_f = (IF "TMIN" \in c.avail THEN Some(50)
                              ELSE IF "MINT" \in c.avail THEN Some(59)
                              ELSE IF "TMP" \in c.avail THEN Some(41)
                              ELSE None)

\* C22 witness: with only TMP available, the second day of a fetch tried
\* TMAX and MAXT at hour 48, then TMP at 27, 30, ..., 48, and took 68 / 41.
C22_Witness ==
    /\ Len(grib_calls) >= 1
    /\ grib_calls[1].avail = {"TMP"}
    /\ Len(grib_calls[1].records) = 2
    /\ LET hi == StageAttempts(grib_calls[1].attempts[2], "high") IN
       /\ Len(hi) = 10
       /\ hi[1] = Attempt("high", "TMAX", 48)
       /\ hi[2] = Attempt("high", "MAXT", 48)
       /\ hi[3] = Attempt("high", "TMP", 27)
       /\ hi[10] = Attempt("high", "TMP", 48)
    /\ grib_calls[1].records[2].high_f = Some(68)
    /\ grib_calls[1].records[2].low_f = Some(41)

\* C22, the short path: with TMAX and TMIN available nothing else was tried.
C22_Witness_FirstStage ==
    /\ Len(grib_calls) >= 1
    /\ Len(grib_calls[1].records) >= 1
    /\ grib_calls[1].attempts[1] = <<Attempt("high", "TMAX", 24), Attempt("low", "TMIN", 12)>>
    /\ grib_calls[1].records[1].high_f = Some(86)

\* C29: every record grouped under an emitted day is counted in sources
\* and sources_count, whether or not it supplies a value, so that
\* low_confidence is false as soon as the day has records of two distinct
\* sources, even if only one of them supplied a temperature.
C29_ValuelessRecordsCount ==
    EnsDone =>
        \A k \in DOMAIN EnsOutput :
            LET e == EnsOutput[k]
                day == DayRecords(e.date)
                named == {day[i].source : i \in DOMAIN day}
            IN /\ \A i \in DOMAIN day :
                     \E j \in DOMAIN e.sources : e.sources[j] = day[i].source
               /\ e.sources_count >= Cardinality(named)
               /\ Cardinality(named) >= 2 => ~e.low_confidence

\* C29 witness: the GRIB record of the day has every field missing and the
\* RSS record supplies the temperatures; both sources are listed and the day
\* is not of low confidence.
C29_Witness ==
    /\ EnsDone
    /\ ens_records = <<Rec(1, "nbm_grib", None, None, None),
                       Rec(1, "nws_rss", Some(84), Some(59), Some(60))>>
    /\ Len(EnsOutput) = 1
    /\ EnsOutput[1].high_f = Some(840)
    /\ EnsOutput[1].sources = <<"nbm_grib", "nws_rss">>
    /\ EnsOutput[1].sources_count = 2
    /\ ~EnsOutput[1].low_confidence

\* C29, sanitization: both temperatures of the GRIB record (131 and -61) are
\* out of range and dropped, the gridpoint record alone supplies the high;
\* the GRIB source still counts.
C29_Witness_Sanitized ==
    /\ EnsDone
    /\ ens_records = <<Rec(1, "nbm_grib", Some(131), Some(-61), None),
                       Rec(1, "nws_gridpoint", Some(85), None, None)>>
    /\ Len(EnsOutput) = 1
    /\ EnsOutput[1].high_f = Some(850)
    /\ EnsOutput[1].low_f = None
    /\ EnsOutput[1].sources = <<"nbm_grib", "nws_gridpoint">>
    /\ ~EnsOutput[1].low_confidence

(***************************************************************************)
(* GRIB index selection: parse_index and NBMIngestor._find_entry           *)
(*                                                                         *)
(* A line of an index file is the sequence of its colon-separated fields.  *)
(***************************************************************************)
MaxIndexLines == 3    \* longest index file

\* int(text): the integer a field spells, or None (ValueError)
IntOf(text) ==
    CASE text = "1" -> Some(1)
      [] text = "2" -> Some(2)
      [] text = "3" -> Some(3)
      [] text = "0" -> Some(0)
      [] text = "120" -> Some(120)
      [] text = "250" -> Some(250)
      [] text = "400" -> Some(400)
      [] OTHER -> None

\* Lines as they occur in .idx files, with a std dev record, a record whose
\* short name is its last field, an unparsable line and an empty line.
IndexLines ==
    { <<"1", "0", "d=2024010100", "TMAX", "2 m above ground", "24 hour fcst", "">>,
      <<"2", "120", "d=2024010100", "TMAX", "2 m above ground", "24 hour fcst", "ens std dev">>,
      <<"3", "250", "d=2024010100", "TMIN", "2 m above ground", "12 hour fcst", "">>,
      <<"2", "400", "d=2024010100", "TMAX", "2 m above ground", "24 hour fcst", "">>,
      <<"3", "400", "d=2024010100", "TMAX">>,
      <<"x", "250", "d=2024010100", "TMAX", "">>,
      <<"garbage">>,
      << >> }

ShortNames == {"TMAX", "TMIN", "APCP"}

RECURSIVE parse_index(_)
\* parse_index: empty lines are filtered out, lines without two leading
\* integers are skipped; description is ":".join(rest), kept as rest
parse_index(lines) ==
    IF lines = << >> THEN << >>
    ELSE LET line == Head(lines) IN
         IF Len(line) < 2 \/ IsNone(IntOf(line[1])) \/ IsNone(IntOf(line[2]))
         THEN parse_index(Tail(lines))
         ELSE << [number |-> Val(IntOf(line[1])),
                  offset |-> Val(IntOf(line[2])),
                  description |-> SubSeq(line, 3, Len(line))] >>
              \o parse_index(Tail(lines))

\* f":{short_name}:" in description: the joined fields carry the token
\* exactly when a field with a field on either side is the short name
TokenIn(short_name, description) ==
    \E i \in 2 .. Len(description) - 1 : description[i] = short_name

\* "std dev" in description
StdDevIn(description) ==
    \E i \in DOMAIN description : description[i] \in {"ens std dev", "std dev"}

RECURSIVE FindFrom(_, _, _)
\* the loop of _find_entry from position pos on
FindFrom(entries, short_name, pos) ==
    IF pos > Len(entries)
    THEN [raised |-> TRUE, start |-> None, end |-> None]
    ELSE IF ~TokenIn(short_name, entries[pos].description)
            \/ StdDevIn(entries[pos].description)
    THEN FindFrom(entries, short_name, pos + 1)
    ELSE [raised |-> FALSE,
          start |-> Some(entries[pos].offset),
          end |-> IF pos + 1 <= Len(entries)
                  THEN Some(entries[pos + 1].offset - 1) ELSE None]

\* A plausible slip: std dev records are not excluded.
_find_entry_with_std_dev(entries, short_name) ==
    LET hits == {i \in DOMAIN entries : TokenIn(short_name, entries[i].description)} IN
    IF hits = {} THEN [raised |-> TRUE, start |-> None, end |-> None]
    ELSE LET i == CHOOSE x \in hits : \A y \in hits : x <= y IN
         [raised |-> FALSE, start |-> Some(entries[i].offset),
          end |-> IF i + 1 <= Len(entries) THEN Some(entries[i + 1].offset - 1) ELSE None]

\* NBMIngestor._find_entry(entries, f":{short_name}:")
_find_entry(entries, short_name) == FindFrom(entries, short_name, 1)

IndexInit ==
    /\ parse_in \in [lines : UNION {[1 .. n -> IndexLines] : n \in 0 .. MaxIndexLines},
                     short_name : ShortNames]
    /\ parse_out = None
    /\ feed_op = None
    /\ now = 0 /\ ttl = 0 /\ files = [k \in CacheKeys |-> NoFile] /\ dirs = {}
    /\ lastFetch = [k \in CacheKeys |-> None] /\ op = NoOp
    /\ settings = None /\ order = << >> /\ pc = "idle"
    /\ idx = 0 /\ records = << >> /\ sources_ok = << >>
    /\ sources_failed = << >> /\ fetch_log = << >> /\ rows = << >>
    /\ ens_records = << >> /\ ens_days = 0 /\ ens_out = None /\ ens_pc = "idle"
    /\ ehs_heat = None /\ ehs_freeze = None
    /\ grib_now = 0 /\ grib_cfg = None /\ grib_cycle = None /\ grib_pc = "idle"
    /\ grib_call = None /\ grib_calls = << >>

\* _load_data, lines 142-143: the index is parsed and the field looked up.
FindEntry ==
    /\ parse_out = None
    /\ LET entries == parse_index(parse_in.lines) IN
       parse_out' = Some([entries |-> entries,
                          found |-> _find_entry(entries, parse_in.short_name)])
    /\ UNCHANGED <<parse_in, feedVars, cacheVars, pipeVars, ensVars, ehsVars, gribVars>>

IndexNext == FindEntry

SpecIndex == IndexInit /\ [][IndexNext]_vars

\* the positions of the entries whose description has the field short_name
\* between two other fields and no field naming a standard deviation
Qualifying(entries, short_name) ==
    {i \in DOMAIN entries :
        /\ \E k \in DOMAIN entries[i].description :
              /\ k > 1 /\ k < Len(entries[i].description)
              /\ entries[i].description[k] = short_name
        /\ \A k \in DOMAIN entries[i].description :
              entries[i].description[k] # "ens std dev"}

\* C21: _find_entry returns the byte range of the first index record that
\* contains ":short_name:" and not "std dev": start is its offset, end the
\* next record's offset minus 1, or open when it is the last record; it
\* raises when no record qualifies.
C21_FindEntryRange ==
    parse_out # None =>
        LET entries == parse_out[1].entries
            found == parse_out[1].found
            Q == Qualifying(entries, parse_in.short_name) IN
        /\ found.raised <=> Q = {}
        /\ Q # {} =>
              \E i \in Q :
                 /\ \A j \in Q : i <= j
                 /\ found.start = Some(entries[i].offset)
                 /\ i < Len(entries) => found.end = Some(entries[i + 1].offset - 1)
                 /\ i = Len(entries) => found.end = None

\* C21 witness: the TMAX std dev record at 120 was passed over and the TMAX
\* record at 400, the last one, gave the open range from 400.
C21_Witness ==
    /\ parse_out # None
    /\ parse_in.short_name = "TMAX"
    /\ Len(parse_out[1].entries) = 3
    /\ parse_out[1].entries[1].offset = 250
    /\ parse_out[1].entries[2].offset = 120
    /\ parse_out[1].entries[3].offset = 400
    /\ parse_out[1].found = [raised |-> FALSE, start |-> Some(400), end |-> None]

\* C21, a closed range: TMAX at 0 followed by the record at 250 gave 0..249.
C21_Witness_Closed ==
    /\ parse_out # None
    /\ parse_in.short_name = "TMAX"
    /\ Len(parse_out[1].entries) >= 2
    /\ parse_out[1].found = [raised |-> FALSE, start |-> Some(0), end |-> Some(249)]

(***************************************************************************)
(* Gridpoint ingestor: GridpointIngestor.fetch (gridpoint.py).  The grid   *)
(* data are the value series of the properties document: each item has the *)
(* local day its validTime starts on and a value (None for JSON null).     *)
(* quantitativePrecipitation values are in tenths of a millimetre, inches  *)
(* are in hundredths.  precip_notes is the sequence of the pieces that the *)
(* code joins with " | ".                                                  *)
(***************************************************************************)
MaxQpfValues == 2

GridDays == {1, 2}

\* 0.1 mm, 2.5 mm and 25.4 mm, a dry period and a null value
QpfValues == {None, Some(0), Some(1), Some(25), Some(254)}

GridItem(day, value) == [day |-> day, value |-> value]

\* mm_to_inches on a sum of tenths of a millimetre, then round(..., 2):
\* hundredths of an inch
mm_to_inches(tenths_mm) == (tenths_mm * 393701 + 500000) \div 1000000

\* the non-null values of a series that start on one day, in order
DayValues(values, day) ==
    LET kept == SelectSeq(values, LAMBDA it : it.day = day /\ it.value # None)
    IN [i \in DOMAIN kept |-> kept[i].value[1]]

\* _bucket_numeric(values, agg="sum", transform=mm_to_inches): day -> sum,
\* for the days with at least one non-null value
_bucket_numeric(values) ==
    LET days == {d \in GridDays : Len(DayValues(values, d)) > 0}
    IN [d \in days |-> mm_to_inches(SumSeq(DayValues(values, d)))]

\* _bucket_numeric(values) with agg="max": whole percent
_bucket_max(values) ==
    LET days == {d \in GridDays : Len(DayValues(values, d)) > 0}
    IN [d \in days |-> MaxOfSeq(DayValues(values, d))]

DigitText(d) ==
    CASE d = 0 -> "0" [] d = 1 -> "1" [] d = 2 -> "2" [] d = 3 -> "3"
      [] d = 4 -> "4" [] d = 5 -> "5" [] d = 6 -> "6" [] d = 7 -> "7"
      [] d = 8 -> "8" [] d = 9 -> "9"

\* f"NWS QPF {inches:.2f}\"" for an amount below 10 inches
QpfNote(hundredths) ==
    "NWS QPF " \o DigitText(hundredths \div 100) \o "."
        \o DigitText((hundredths \div 10) % 10) \o DigitText(hundredths % 10) \o "\""

_ensure_record(day) ==
    [date |-> day, source |-> "nws_gridpoint", high_f |-> None, low_f |-> None,
     pop_pct |-> None, precip_type |-> None, precip_notes |-> << >>,
     qpf_inches |-> None, snow_inches |-> None, ice_inches |-> None]

\* the body of the loop of fetch for one day
GridRecord(day, pops, qpf) ==
    LET r0 == _ensure_record(day)
        r1 == IF day \in DOMAIN pops
                THEN [r0 EXCEPT !.pop_pct = Some(pops[day])]
                ELSE r0
    IN IF day \in DOMAIN qpf /\ qpf[day] > 0
         THEN [r1 EXCEPT !.precip_notes = Append(@, QpfNote(qpf[day]))]
         ELSE r1

\* GridpointIngestor.fetch: one record per day that any series names,
\* ascending, the first `days` of them
gridpoint_fetch(pop_values, qpf_values, days) ==
    LET pops == _bucket_max(pop_values)
        qpf == _bucket_numeric(qpf_values)
        ordered == SortSet(DOMAIN pops \cup DOMAIN qpf)
        kept == SubSeq(ordered, 1, IF days < Len(ordered) THEN days ELSE Len(ordered))
    IN [i \in DOMAIN kept |-> GridRecord(kept[i], pops, qpf)]

QpfSeries ==
    UNION {[1 .. n -> {GridItem(d, v) : d \in GridDays, v \in QpfValues}]
           : n \in 0 .. MaxQpfValues}

PopSeries == {<< >>, <<GridItem(1, Some(40))>>, <<GridItem(2, Some(70)), GridItem(2, Some(20))>>}

GridpointInit ==
    /\ parse_in \in [pop : PopSeries, qpf : QpfSeries, days : {1, 2}]
    /\ parse_out = None
    /\ feed_op = None
    /\ now = 0 /\ ttl = 0 /\ files = [k \in CacheKeys |-> NoFile] /\ dirs = {}
    /\ lastFetch = [k \in CacheKeys |-> None] /\ op = NoOp
    /\ settings = None /\ order = << >> /\ pc = "idle"
    /\ idx = 0 /\ records = << >> /\ sources_ok = << >>
    /\ sources_failed = << >> /\ fetch_log = << >> /\ rows = << >>
    /\ ens_records = << >> /\ ens_days = 0 /\ ens_out = None /\ ens_pc = "idle"
    /\ ehs_heat = None /\ ehs_freeze = None
    /\ grib_now = 0 /\ grib_cfg = None /\ grib_cycle = None /\ grib_pc = "idle"
    /\ grib_call = None /\ grib_calls = << >>

\* fetch, lines 181-215, on the downloaded grid data
GridpointFetch ==
    /\ parse_out = None
    /\ parse_out' = Some(gridpoint_fetch(parse_in.pop, parse_in.qpf, parse_in.days))
    /\ UNCHANGED <<parse_in, feedVars, cacheVars, pipeVars, ensVars, ehsVars, gribVars>>

GridpointNext == GridpointFetch

SpecGridpoint == GridpointInit /\ [][GridpointNext]_vars

\* the day's rounded sum of quantitativePrecipitation in hundredths of an
\* inch; 0 when the day has no value
QpfSum(day) ==
    LET q == _bucket_numeric(parse_in.qpf)
    IN IF day \in DOMAIN q THEN q[day] ELSE 0

HasQpfNote(r) == \E i \in DOMAIN r.precip_notes : r.precip_notes[i] = QpfNote(QpfSum(r.date))

NoQpfNote(r) ==
    \A i \in DOMAIN r.precip_notes : SubSeq(r.precip_notes[i], 1, 7) # "NWS QPF"

\* C23: a day's record has qpf_inches set to the rounded per-day sum and a
\* note NWS QPF N.NN" when that sum is above 0; otherwise qpf_inches is null
\* and there is no such note.
C23_QpfRecorded ==
    parse_out # None =>
        \A i \in DOMAIN parse_out[1] :
            LET r == parse_out[1][i] IN
            IF QpfSum(r.date) > 0
              THEN r.qpf_inches = Some(QpfSum(r.date)) /\ HasQpfNote(r)
              ELSE r.qpf_inches = None /\ NoQpfNote(r)

(***************************************************************************)
(* RSS feed parser: parse_rss (rss.py).  An entry has the local day of its *)
(* timestamp (None when it has none) and its text, title and summary       *)
(* joined, as the sequence of its tokens: "High: N F" and "Low: N F"       *)
(* readings, "N%" percentages and lower-case words.                        *)
(***************************************************************************)
MaxRssEntries == 3

High(n) == [kind |-> "High", num |-> n, word |-> ""]
Low(n) == [kind |-> "Low", num |-> n, word |-> ""]
Pct(n) == [kind |-> "pct", num |-> n, word |-> ""]
Word(w) == [kind |-> "word", num |-> 0, word |-> w]

RssEntry(day, text) == [day |-> day, text |-> text]

RssEntries ==
    {RssEntry(Some(1), <<Word("today"), High(88), Pct(20), Word("rain"), Pct(60)>>),
     RssEntry(Some(1), <<Low(61), Pct(40)>>),
     RssEntry(Some(1), <<Pct(30), Word("rain"), Word("freezing")>>),
     RssEntry(Some(2), <<Pct(60), Word("snow"), Pct(20)>>),
     RssEntry(Some(2), <<High(70), Word("breezy"), High(72)>>),
     RssEntry(None, <<Pct(90)>>)}

\* the numbers of the tokens of one kind, in text order
Matches(text, kind) ==
    LET kept == SelectSeq(text, LAMBDA t : t.kind = kind)
    IN [i \in DOMAIN kept |-> kept[i].num]

\* re.search(r"(\d+)%", text): the first percentage of the text, if any
FirstPct(text) ==
    LET all == Matches(text, "pct")
    IN IF all = << >> THEN << >> ELSE <<all[1]>>

HasWord(text, w) == \E i \in DOMAIN text : text[i].kind = "word" /\ text[i].word = w

\* the keyword table of lines 221-227, in its order
RssKeywords ==
    <<[keyword |-> "snow", label |-> "Snow"],
      [keyword |-> "freezing", label |-> "Freezing Rain"],
      [keyword |-> "sleet", label |-> "Sleet"],
      [keyword |-> "ice", label |-> "Ice Pellets"],
      [keyword |-> "rain", label |-> "Rain"]>>

KeywordLabel(text) ==
    LET hits == {i \in DOMAIN RssKeywords : HasWord(text, RssKeywords[i].keyword)}
    IN IF hits = {} THEN None
       ELSE Some(RssKeywords[CHOOSE i \in hits : \A j \in hits : i <= j].label)

LastOf(seq, default) == IF seq = << >> THEN default ELSE Some(seq[Len(seq)])

RssRecord(day) ==
    [date |-> day, source |-> "nws_rss", high_f |-> None, low_f |-> None,
     pop_pct |-> None, precip_type |-> None, precip_notes |-> << >>,
     wind_phrase |-> None]

\* the body of the loop of parse_rss for one entry with a timestamp
RssApply(record, text) ==
    LET pops == FirstPct(text)
        label == KeywordLabel(text)
        windy == HasWord(text, "breezy") \/ HasWord(text, "wind") \/ HasWord(text, "gust")
        prior == IF record.pop_pct = None THEN 0 ELSE record.pop_pct[1]
    IN [record EXCEPT
           !.high_f = LastOf(Matches(text, "High"), @),
           !.low_f = LastOf(Matches(text, "Low"), @),
           !.pop_pct = IF pops = << >> THEN @ ELSE Some(MaxOfSeq(<<prior>> \o pops)),
           !.precip_type = IF label = None THEN @ ELSE label,
           !.precip_notes = text,
           !.wind_phrase = IF windy THEN Some(text) ELSE @]

\* the dictionary `daily` after the first n entries
RECURSIVE RssDaily(_, _)
RssDaily(entries, n) ==
    IF n = 0 THEN << >>
    ELSE LET daily == RssDaily(entries, n - 1)
             e == entries[n]
         IN IF e.day = None THEN daily
            ELSE LET day == e.day[1]
                     record == IF day \in DOMAIN daily THEN daily[day] ELSE RssRecord(day)
                 IN [d \in DOMAIN daily \cup {day} |->
                        IF d = day THEN RssApply(record, e.text) ELSE daily[d]]

parse_rss(entries, days) ==
    LET daily == RssDaily(entries, Len(entries))
        ordered == SortSet(DOMAIN daily)
        kept == SubSeq(ordered, 1, IF days < Len(ordered) THEN days ELSE Len(ordered))
    IN [i \in DOMAIN kept |-> daily[kept[i]]]

RssInit ==
    /\ parse_in \in [entries : UNION {[1 .. n -> RssEntries] : n \in 0 .. MaxRssEntries},
                     days : {1, 2}]
    /\ parse_out = None
    /\ feed_op = None
    /\ now = 0 /\ ttl = 0 /\ files = [k \in CacheKeys |-> NoFile] /\ dirs = {}
    /\ lastFetch = [k \in CacheKeys |-> None] /\ op = NoOp
    /\ settings = None /\ order = << >> /\ pc = "idle"
    /\ idx = 0 /\ records = << >> /\ sources_ok = << >>
    /\ sources_failed = << >> /\ fetch_log = << >> /\ rows = << >>
    /\ ens_records = << >> /\ ens_days = 0 /\ ens_out = None /\ ens_pc = "idle"
    /\ ehs_heat = None /\ ehs_freeze = None
    /\ grib_now = 0 /\ grib_cfg = None /\ grib_cycle = None /\ grib_pc = "idle"
    /\ grib_call = None /\ grib_calls = << >>

ParseRss ==
    /\ parse_out = None
    /\ parse_out' = Some(parse_rss(parse_in.entries, parse_in.days))
    /\ UNCHANGED <<parse_in, feedVars, cacheVars, pipeVars, ensVars, ehsVars, gribVars>>

RssNext == ParseRss

SpecRss == RssInit /\ [][RssNext]_vars

\* every percentage in the texts of the entries of one day
RECURSIVE DayPcts(_, _, _)
DayPcts(entries, day, n) ==
    IF n = 0 THEN << >>
    ELSE DayPcts(entries, day, n - 1) \o
         (IF entries[n].day = Some(day) THEN Matches(entries[n].text, "pct") ELSE << >>)

\* C24: a day's pop_pct is the maximum over all the percentages in the
\* texts of the day's entries, several in one entry included.
C24_PopIsMaxOfAll ==
    parse_out # None =>
        \A i \in DOMAIN parse_out[1] :
            LET r == parse_out[1][i]
                all == DayPcts(parse_in.entries, r.date, Len(parse_in.entries))
            IN r.pop_pct = (IF all = << >> THEN None ELSE Some(MaxOfSeq(all)))

(***************************************************************************)
(* DWML parser: parse_dwml (dwml.py).  A document has its time layouts     *)
(* (layout key -> the local days of its start-valid-time nodes) and its    *)
(* series nodes, each with the layout key it references and its values in  *)
(* document order.  A numeric text is Some(n), a blank or unparsable one   *)
(* None; amounts are in hundredths of an inch.                             *)
(***************************************************************************)
\* _parse_time_layouts: two layouts; "k1" has two times on day 1
Layouts == [k1 |-> <<1, 1, 2>>, k2 |-> <<2, 3>>]

SeriesNode(type, layout, values) == [type |-> type, layout |-> layout, values |-> values]

\* zip(times, values, strict=False), with every value in place of a missing
\* one cycled from the start: surplus times are paired too
Zip_cycled(times, values) ==
    IF values = << >> THEN << >>
    ELSE [i \in DOMAIN times |->
             [day |-> times[i], val |-> values[((i - 1) % Len(values)) + 1]]]

\* zip(times, values, strict=False)
Zip(times, values) ==
    LET n == IF Len(times) < Len(values) THEN Len(times) ELSE Len(values)
    IN [i \in 1 .. n |-> [day |-> times[i], val |-> values[i]]]

\* the (day, value, type) triples one node contributes
Pairs(node) ==
    IF node.layout \notin DOMAIN Layouts THEN << >>
    ELSE LET z == Zip(Layouts[node.layout], node.values)
         IN [i \in DOMAIN z |-> [day |-> z[i].day, val |-> z[i].val, type |-> node.type]]

\* the triples of a list of nodes, in document order
RECURSIVE FlatPairs(_, _)
FlatPairs(nodes, n) ==
    IF n = 0 THEN << >> ELSE FlatPairs(nodes, n - 1) \o Pairs(nodes[n])

AllPairs(nodes) == FlatPairs(nodes, Len(nodes))

\* wtype.replace("_", " ").title(), coverage.title(), intensity.title()
Title(w) ==
    CASE w = "rain" -> "Rain" [] w = "snow" -> "Snow" [] w = "fog" -> "Fog"
      [] w = "haze" -> "Haze" [] w = "freezing_rain" -> "Freezing Rain"
      [] w = "chance" -> "Chance" [] w = "likely" -> "Likely"
      [] w = "light" -> "Light" [] w = "heavy" -> "Heavy"

Condition(weather_type, coverage, intensity) ==
    [weather_type |-> weather_type, coverage |-> coverage, intensity |-> intensity]

\* the descriptor of one weather-conditions node, lines 171-178
Descriptor(c) ==
    LET d1 == IF c.intensity \notin {"", "none", "moderate"}
                THEN Title(c.intensity) \o " " \o Title(c.weather_type)
                ELSE Title(c.weather_type)
    IN IF c.coverage \notin {"", "definite"} THEN Title(c.coverage) \o " " \o d1 ELSE d1

\* the descriptors of one weather value, "none" and missing types skipped
Descriptors(value) ==
    LET kept == SelectSeq(value.conditions, LAMBDA c : c.weather_type \notin {"", "none"})
    IN [i \in DOMAIN kept |-> Descriptor(kept[i])]

\* list(dict.fromkeys(seq)): first occurrences, in order
RECURSIVE FromKeys(_)
FromKeys(seq) ==
    IF seq = << >> THEN << >>
    ELSE LET front == FromKeys(SubSeq(seq, 1, Len(seq) - 1))
             last == seq[Len(seq)]
         IN IF \E i \in DOMAIN front : front[i] = last THEN front ELSE Append(front, last)

RECURSIVE JoinWith(_, _)
JoinWith(seq, sep) ==
    IF seq = << >> THEN ""
    ELSE IF Len(seq) = 1 THEN seq[1]
    ELSE JoinWith(SubSeq(seq, 1, Len(seq) - 1), sep) \o sep \o seq[Len(seq)]

\* _summarize_precip: (primary, notes)
_summarize_precip(types) ==
    LET seen == FromKeys(SelectSeq(types, LAMBDA t : t # ""))
        hits == {i \in DOMAIN PRECIP_PRIORITY : \E j \in DOMAIN seen : seen[j] = PRECIP_PRIORITY[i]}
    IN IF seen = << >> THEN [primary |-> None, notes |-> ""]
       ELSE [primary |-> IF hits # {}
                           THEN Some(PRECIP_PRIORITY[CHOOSE i \in hits : \A j \in hits : i <= j])
                           ELSE Some(seen[1]),
             notes |-> JoinWith(seen, ", ")]

RECURSIVE ConcatAll(_)
ConcatAll(seqs) ==
    IF seqs = << >> THEN << >>
    ELSE ConcatAll(SubSeq(seqs, 1, Len(seqs) - 1)) \o seqs[Len(seqs)]

\* the values that the pairs of one day carry, in order
OnDay(pairs, day) ==
    LET kept == SelectSeq(pairs, LAMBDA q : q.day = day)
    IN [i \in DOMAIN kept |-> kept[i].val]

\* the numbers among optional values, in order
Numbers(vals) ==
    LET kept == SelectSeq(vals, LAMBDA v : v # None)
    IN [i \in DOMAIN kept |-> kept[i][1]]

\* record.pop_pct = max(record.pop_pct or 0, num), over the numbers in order
RECURSIVE PopFold(_)
PopFold(nums) ==
    IF nums = << >> THEN None
    ELSE LET before == PopFold(SubSeq(nums, 1, Len(nums) - 1))
             prior == IF before = None THEN 0 ELSE before[1]
             num == nums[Len(nums)]
         IN Some(IF prior > num THEN prior ELSE num)

\* _accumulate_amount: the sum of the amounts above 0, None when there is none
Accumulate(nums) ==
    LET kept == SelectSeq(nums, LAMBDA a : a > 0)
    IN IF kept = << >> THEN None ELSE Some(SumSeq(kept))

\* weather_types[day]: the descriptors of the weather values paired with
\* the day, in document order
WeatherTypes(doc, day) ==
    LET values == OnDay(AllPairs(doc.weather), day)
    IN ConcatAll([i \in DOMAIN values |-> Descriptors(values[i])])

\* any(token in lowered for token in ("breezy", "wind", "gust"))
HasToken(text) == text \in {"Breezy.", "Gusts to 30 mph.", "Light wind."}

\* one record of `daily`, after every loop of parse_dwml
DwmlRecord(doc, day, source_name) ==
    LET temps == SelectSeq(AllPairs(doc.temps), LAMBDA q : q.day = day /\ q.val # None)
        maxima == SelectSeq(temps, LAMBDA q : q.type = "maximum")
        minima == SelectSeq(temps, LAMBDA q : q.type = "minimum")
        pops == Numbers(OnDay(AllPairs(doc.pops), day))
        liquid == Numbers(OnDay(AllPairs(SelectSeq(doc.amounts, LAMBDA a : a.type = "liquid")), day))
        values == OnDay(AllPairs(doc.weather), day)
        summaries == SelectSeq([i \in DOMAIN values |-> values[i].summary], LAMBDA t : t # "")
        texts == SelectSeq(OnDay(AllPairs(doc.worded), day), LAMBDA t : t # "")
        windy == SelectSeq(texts, HasToken)
        snow == Numbers(OnDay(AllPairs(SelectSeq(doc.amounts, LAMBDA a : a.type = "snow")), day))
        precip == _summarize_precip(WeatherTypes(doc, day))
        fragments == IF precip.notes # "" THEN <<precip.notes>> \o summaries ELSE summaries
    IN [date |-> day, source |-> source_name,
        high_f |-> IF maxima = << >> THEN None ELSE Some(maxima[Len(maxima)].val[1]),
        low_f |-> IF minima = << >> THEN None ELSE Some(minima[Len(minima)].val[1]),
        pop_pct |-> PopFold(pops),
        qpf_inches |-> Accumulate(liquid),
        snow_inches |-> Accumulate(snow),
        precip_type |-> precip.primary,
        precip_notes |-> JoinWith(FromKeys(fragments), "; "),
        notes |-> JoinWith(texts, " | "),
        wind_phrase |-> IF windy = << >> THEN None ELSE Some(windy[Len(windy)])]

\* the days for which some loop called _ensure_record
DwmlDays(doc) ==
    LET all == AllPairs(doc.temps) \o AllPairs(doc.pops) \o AllPairs(doc.amounts)
                \o AllPairs(doc.weather) \o AllPairs(doc.worded)
    IN {all[i].day : i \in DOMAIN all}

parse_dwml(doc, days, source_name) ==
    LET ordered == SortSet(DwmlDays(doc))
        kept == SubSeq(ordered, 1, IF days < Len(ordered) THEN days ELSE Len(ordered))
    IN [i \in DOMAIN kept |-> DwmlRecord(doc, kept[i], source_name)]

TempChoices ==
    {<< >>,
     <<SeriesNode("maximum", "k1", <<Some(88), None, Some(75), Some(99)>>)>>,
     <<SeriesNode("maximum", "k1", <<Some(88), Some(91)>>),
       SeriesNode("minimum", "k2", <<Some(60)>>)>>,
     <<SeriesNode("maximum", "k9", <<Some(50)>>)>>}

PopChoices ==
    {<< >>,
     <<SeriesNode("", "k1", <<Some(30), Some(60), Some(20), Some(90)>>)>>,
     <<SeriesNode("", "k1", <<Some(30), Some(10)>>), SeriesNode("", "k2", <<Some(40)>>)>>,
     <<SeriesNode("", "k2", <<None, Some(0)>>)>>,
     <<SeriesNode("", "k9", <<Some(80)>>)>>}

AmountChoices ==
    {<< >>,
     <<SeriesNode("liquid", "k1", <<Some(25), Some(0), Some(10)>>),
       SeriesNode("snow", "k2", <<Some(100)>>)>>}

WeatherValue(summary, conditions) == [summary |-> summary, conditions |-> conditions]

WeatherChoices ==
    {<< >>,
     <<SeriesNode("", "k1",
         <<WeatherValue("Patchy Fog", <<Condition("fog", "", ""), Condition("haze", "", "")>>),
           WeatherValue("", <<Condition("haze", "", "none")>>),
           WeatherValue("", <<Condition("none", "", "")>>)>>)>>,
     <<SeriesNode("", "k1",
         <<WeatherValue("", <<Condition("snow", "chance", "light")>>),
           WeatherValue("Rain", <<Condition("rain", "definite", "moderate"),
                                  Condition("freezing_rain", "likely", "")>>)>>)>>,
     <<SeriesNode("", "k2",
         <<WeatherValue("", <<Condition("haze", "", ""), Condition("fog", "", ""),
                              Condition("fog", "", "")>>),
           WeatherValue("", <<Condition("snow", "", ""), Condition("freezing_rain", "", "")>>),
           WeatherValue("", <<Condition("rain", "", "")>>)>>)>>,
     <<SeriesNode("", "k9", <<WeatherValue("", <<Condition("rain", "", "")>>)>>)>>}

WordedChoices ==
    {<< >>, <<SeriesNode("", "k2", <<"Breezy.", "", "Sunny.">>)>>}

DwmlDaysChoices == {0, 1, 2, 3}

DwmlInit ==
    /\ parse_in \in [doc : [temps : TempChoices, pops : PopChoices, amounts : AmountChoices,
                            weather : WeatherChoices, worded : WordedChoices],
                     days : DwmlDaysChoices]
    /\ parse_out = None
    /\ feed_op = None
    /\ now = 0 /\ ttl = 0 /\ files = [k \in CacheKeys |-> NoFile] /\ dirs = {}
    /\ lastFetch = [k \in CacheKeys |-> None] /\ op = NoOp
    /\ settings = None /\ order = << >> /\ pc = "idle"
    /\ idx = 0 /\ records = << >> /\ sources_ok = << >>
    /\ sources_failed = << >> /\ fetch_log = << >> /\ rows = << >>
    /\ ens_records = << >> /\ ens_days = 0 /\ ens_out = None /\ ens_pc = "idle"
    /\ ehs_heat = None /\ ehs_freeze = None
    /\ grib_now = 0 /\ grib_cfg = None /\ grib_cycle = None /\ grib_pc = "idle"
    /\ grib_call = None /\ grib_calls = << >>

\* NdfdIngestor.fetch, line 81: the document is parsed
ParseDwml ==
    /\ parse_out = None
    /\ parse_out' = Some(parse_dwml(parse_in.doc, parse_in.days, "nws_ndfd"))
    /\ UNCHANGED <<parse_in, feedVars, cacheVars, pipeVars, ensVars, ehsVars, gribVars>>

DwmlNext == ParseDwml

SpecDwml == DwmlInit /\ [][DwmlNext]_vars

DwmlOut == parse_out[1]

\* the reducer's rule applied to the descriptors of one day
ReducerRule(day) ==
    LET types == WeatherTypes(parse_in.doc, day)
    IN _dominant_precip([i \in DOMAIN types |-> Some(types[i])])

\* C25: the precip_type of a day is the first PRECIP_PRIORITY label present
\* among the day's descriptors, else the most frequent descriptor with ties
\* going to the first one, else null.
C25_DwmlPrecipRule ==
    parse_out # None =>
        \A i \in DOMAIN DwmlOut : DwmlOut[i].precip_type = ReducerRule(DwmlOut[i].date)

\* the positions of a node's values that are paired with a time of its
\* layout falling on the day: none when the layout key is unknown, and none
\* beyond the shorter of the two lists
PairedOn(node, day) ==
    IF node.layout \notin DOMAIN Layouts THEN {}
    ELSE {j \in DOMAIN node.values :
             j <= Len(Layouts[node.layout]) /\ Layouts[node.layout][j] = day}

DocNodes(doc) == doc.temps \o doc.pops \o doc.amounts \o doc.weather \o doc.worded

\* the days some series has a paired value on
PairedDays(doc) ==
    {d \in 1 .. 3 : \E i \in DOMAIN DocNodes(doc) : PairedOn(DocNodes(doc)[i], d) # {}}

\* the numeric values of the nodes of one type that are paired with the day
PairedNumbers(nodes, type, day) ==
    {nodes[i].values[j][1] :
        <<i, j>> \in {q \in (DOMAIN nodes) \X (1 .. 4) :
                        /\ nodes[q[1]].type = type
                        /\ q[2] \in PairedOn(nodes[q[1]], day)
                        /\ nodes[q[1]].values[q[2]] # None}}

\* C26: series are paired by position with their time layout up to the
\* shorter list, a series with an unknown layout key contributes nothing;
\* a day's pop_pct is the maximum of the probabilities paired with it; the
\* result has one record per paired day, ascending, cut to the first `days`.
C26_DwmlPairing ==
    parse_out # None =>
        /\ \A i \in DOMAIN DwmlOut :
              LET r == DwmlOut[i]
                  pops == PairedNumbers(parse_in.doc.pops, "", r.date)
                  highs == PairedNumbers(parse_in.doc.temps, "maximum", r.date)
                  lows == PairedNumbers(parse_in.doc.temps, "minimum", r.date)
              IN /\ r.pop_pct = (IF pops = {} THEN None ELSE Some(MaxOfSet(pops)))
                 /\ IF highs = {} THEN r.high_f = None
                    ELSE r.high_f # None /\ r.high_f[1] \in highs
                 /\ IF lows = {} THEN r.low_f = None
                    ELSE r.low_f # None /\ r.low_f[1] \in lows
        /\ \A i, j \in DOMAIN DwmlOut : i < j => DwmlOut[i].date < DwmlOut[j].date
        /\ {DwmlOut[i].date : i \in DOMAIN DwmlOut}
              = {d \in PairedDays(parse_in.doc) :
                    Cardinality({e \in PairedDays(parse_in.doc) : e < d}) < parse_in.days}

\* C26 witness: four probabilities against three times and one minimum
\* against two times; days 1, 2 and 3 have paired values and the result is
\* cut to two records, with the maximum 60 of day 1.
C26_Witness ==
    /\ parse_out # None
    /\ parse_in.days = 2
    /\ parse_in.doc.pops = <<SeriesNode("", "k1", <<Some(30), Some(60), Some(20), Some(90)>>)>>
    /\ parse_in.doc.worded # << >>
    /\ PairedDays(parse_in.doc) = {1, 2, 3}
    /\ Len(DwmlOut) = 2
    /\ DwmlOut[1].pop_pct = Some(60)
    /\ DwmlOut[2].pop_pct = Some(20)

\* C26, unknown layout key: the only series of the document name a layout
\* that does not exist, and no record results.
C26_Witness_UnknownLayout ==
    /\ parse_out = Some(<< >>)
    /\ parse_in.days = 3
    /\ parse_in.doc.pops = <<SeriesNode("", "k9", <<Some(80)>>)>>
    /\ parse_in.doc.temps = <<SeriesNode("maximum", "k9", <<Some(50)>>)>>

(***************************************************************************)
(* RSS ingestor: RSSIngestor._download_feed and fetch (rss.py), over the   *)
(* TTL cache above.  The MapClick endpoint answers each request with a     *)
(* body or an error status; bodies are texts.                              *)
(***************************************************************************)
MaxFeedCalls == 3

RssKey == <<"rss", "home.xml">>

\* what the endpoint may answer to FcstType=rss: a feed, a feed with an
\* upper-case tag, an error page, a page that only mentions rss
RssResponses ==
    [kind : {"bytes"}, val : {"<rss>", "<Rss>", "<html>", "<p>rss"}]
        \cup [kind : {"raise"}, val : {"HTTPError"}]

\* what it may answer to FcstType=dwml
DwmlResponses ==
    [kind : {"bytes"}, val : {"<dwml>"}] \cup [kind : {"raise"}, val : {"HTTPError"}]

\* str.lower() on one character
LowerChar(c) ==
    CASE c = "R" -> "r" [] c = "S" -> "s" [] c = "D" -> "d" [] c = "W" -> "w"
      [] c = "M" -> "m" [] c = "L" -> "l" [] c = "H" -> "h" [] c = "T" -> "t"
      [] c = "P" -> "p" [] OTHER -> c

\* text.lower()
RECURSIVE LowerText(_)
LowerText(text) ==
    IF Len(text) = 0 THEN ""
    ELSE LowerText(SubSeq(text, 1, Len(text) - 1)) \o LowerChar(SubSeq(text, Len(text), Len(text)))

\* sub in text
Within(sub, text) ==
    \E i \in 1 .. Len(text) - Len(sub) + 1 : SubSeq(text, i, i + Len(sub) - 1) = sub

\* A plausible slip: the test is made on the text as it is.
IsRss_case_sensitive(text) == Within("<rss", text)

\* "<rss" in text.lower()
IsRss(text) == Within("<rss", LowerText(text))

\* _download_feed with the fallback body returned but not stored
_download_feed_not_stored(fs, t, ttlv, rss_resp, dwml_resp) ==
    LET c == fetch(fs, RssKey, rss_resp, t, ttlv)
        text == c.files[RssKey].data
    IN IF c.result.kind = "raise"
         THEN [files |-> c.files, invoked |-> c.invoked, cached |-> None, dwml_requests |-> 0,
               raised |-> TRUE, text |-> ""]
       ELSE IF IsRss(text)
         THEN [files |-> c.files, invoked |-> c.invoked, cached |-> Some(text), dwml_requests |-> 0,
               raised |-> FALSE, text |-> text]
       ELSE IF dwml_resp.kind = "raise"
         THEN [files |-> c.files, invoked |-> c.invoked, cached |-> Some(text), dwml_requests |-> 1,
               raised |-> TRUE, text |-> ""]
       ELSE [files |-> c.files,
             invoked |-> c.invoked, cached |-> Some(text), dwml_requests |-> 1,
             raised |-> FALSE, text |-> dwml_resp.val]

\* RSSIngestor._download_feed at time t: the tree afterwards, how often the
\* cache's downloader ran, the text read from the cached file, the number of
\* DWML requests, and the text returned or that an error was raised
_download_feed(fs, t, ttlv, rss_resp, dwml_resp) ==
    LET c == fetch(fs, RssKey, rss_resp, t, ttlv)
        text == c.files[RssKey].data
    IN IF c.result.kind = "raise"
         THEN [files |-> c.files, invoked |-> c.invoked, cached |-> None, dwml_requests |-> 0,
               raised |-> TRUE, text |-> ""]
       ELSE IF IsRss(text)
         THEN [files |-> c.files, invoked |-> c.invoked, cached |-> Some(text), dwml_requests |-> 0,
               raised |-> FALSE, text |-> text]
       ELSE IF dwml_resp.kind = "raise"
         THEN [files |-> c.files, invoked |-> c.invoked, cached |-> Some(text), dwml_requests |-> 1,
               raised |-> TRUE, text |-> ""]
       ELSE [files |-> [c.files EXCEPT ![RssKey] = [exists |-> TRUE, data |-> dwml_resp.val, mtime |-> t]],
             invoked |-> c.invoked, cached |-> Some(text), dwml_requests |-> 1,
             raised |-> FALSE, text |-> dwml_resp.val]

\* RSSIngestor.fetch: the parser the payload is handed to
rss_route(d) ==
    IF d.raised THEN "none"
    ELSE IF IsRss(d.text) THEN "parse_rss" ELSE "parse_dwml"

FeedInit ==
    /\ now = 0
    /\ ttl \in {TtlOf(h) : h \in -1 .. MaxTtlHours}
    /\ files = [k \in CacheKeys |-> NoFile]
    /\ dirs = {}
    /\ lastFetch = [k \in CacheKeys |-> None]
    /\ op = NoOp
    /\ feed_op = None
    /\ parse_in = None /\ parse_out = None
    /\ settings = None /\ order = << >> /\ pc = "idle"
    /\ idx = 0 /\ records = << >> /\ sources_ok = << >>
    /\ sources_failed = << >> /\ fetch_log = << >> /\ rows = << >>
    /\ ens_records = << >> /\ ens_days = 0 /\ ens_out = None /\ ens_pc = "idle"
    /\ ehs_heat = None /\ ehs_freeze = None
    /\ grib_now = 0 /\ grib_cfg = None /\ grib_cycle = None /\ grib_pc = "idle"
    /\ grib_call = None /\ grib_calls = << >>

\* One call of RSSIngestor.fetch(site, days, tzinfo) for the site.
FeedFetch ==
    \E rss_resp \in RssResponses, dwml_resp \in DwmlResponses :
        LET d == _download_feed(files, now, ttl, rss_resp, dwml_resp)
            n == IF feed_op = None THEN 1 ELSE feed_op[1].n + 1
        IN /\ n <= MaxFeedCalls
           /\ files' = d.files
           /\ dirs' = dirs \cup {RssKey[1]}
           /\ feed_op' = Some([n |-> n, at |-> now, pre |-> files[RssKey],
                               invoked |-> d.invoked, cached |-> d.cached,
                               dwml_requests |-> d.dwml_requests, dwml_resp |-> dwml_resp,
                               raised |-> d.raised, text |-> d.text, route |-> rss_route(d)])
           /\ UNCHANGED <<now, ttl, lastFetch, op, pipeVars, ensVars, ehsVars, gribVars, parseVars>>

FeedNext ==
    \/ Tick
    \/ FeedFetch

SpecFeed == FeedInit /\ [][FeedNext]_vars

FeedCall == feed_op[1]

\* the bodies whose lowercased text contains "<rss"
RssTexts == {"<rss>", "<Rss>"}

\* the cached file as the cache left it, before any fallback rewrite
AfterCache(c) ==
    IF c.invoked = 1
      THEN [exists |-> TRUE, data |-> c.cached[1], mtime |-> c.at]
      ELSE c.pre

C27_Witness_Rss ==
    /\ feed_op # None
    /\ FeedCall.cached = Some("<Rss>")
    /\ FeedCall.dwml_requests = 0
    /\ FeedCall.route = "parse_rss"
    /\ files[RssKey].data = "<Rss>"

\* C27, failing DWML request: the error propagates, the stored page stays.
C27_Witness_DwmlFails ==
    /\ feed_op # None
    /\ FeedCall.cached = Some("<p>rss")
    /\ FeedCall.dwml_requests = 1
    /\ FeedCall.raised
    /\ files[RssKey].data = "<p>rss"

\* the cached file held a non-RSS payload when the call began
HeldNonRss(c) == c.pre.exists /\ c.pre.data \notin RssTexts

\* the entry was within its TTL when the call began
WithinTtl(c) == c.pre.exists /\ ttl > 0 /\ c.at - c.pre.mtime <= ttl

\* C30 as stated: once the cached file holds a non-RSS payload, every later
\* call issues a new DWML request and rewrites the file, renewing its
\* modification time.
C30_AlwaysRewrites ==
    (feed_op # None /\ HeldNonRss(FeedCall)) =>
        /\ FeedCall.dwml_requests = 1
        /\ files[RssKey].mtime = FeedCall.at
        /\ files[RssKey].data = FeedCall.dwml_resp.val

\* C30 amended: once the cached file holds a non-RSS payload, every later
\* call made while the entry is within its TTL leaves the cache's
\* downloader alone and issues a new DWML request; when that request
\* succeeds the file is rewritten with its body and its modification time
\* becomes the time of the call, and when it fails the file is left as it
\* was.
C30_RewritesWithinTtl ==
    (feed_op # None /\ HeldNonRss(FeedCall) /\ WithinTtl(FeedCall)) =>
        /\ FeedCall.invoked = 0
        /\ FeedCall.dwml_requests = 1
        /\ FeedCall.dwml_resp.kind = "bytes" =>
              files[RssKey] = [exists |-> TRUE, data |-> FeedCall.dwml_resp.val,
                               mtime |-> FeedCall.at]
        /\ FeedCall.dwml_resp.kind = "raise" => files[RssKey] = FeedCall.pre

\* C30 witness: the file held the DWML body of an earlier fallback, a later
\* call within the TTL asked for DWML again without the downloader running,
\* and the file's modification time moved to the time of that call.
C30_Witness ==
    /\ feed_op # None
    /\ FeedCall.n >= 2
    /\ FeedCall.pre.exists /\ FeedCall.pre.data = "<dwml>"
    /\ WithinTtl(FeedCall)
    /\ FeedCall.at > FeedCall.pre.mtime
    /\ FeedCall.invoked = 0
    /\ FeedCall.dwml_requests = 1
    /\ files[RssKey].mtime = FeedCall.at

(***************************************************************************)
(* Pipeline driver: pipeline.py                                            *)
(***************************************************************************)
\* The four ingestor objects run_pipeline constructs.
Ingestors == {"nbm", "grid", "ndfd", "rss"}

\* The class attribute source_name of each ingestor.
source_name(ing) ==
    CASE ing = "nbm" -> "nbm_grib"
      [] ing = "grid" -> "nws_gridpoint"
      [] ing = "ndfd" -> "nws_ndfd"
      [] ing = "rss" -> "nws_rss"

\* The positional parameters each ingestor's fetch requires after self:
\* NBMIngestor.fetch(site), GridpointIngestor.fetch(site),
\* NdfdIngestor.fetch(site), RSSIngestor.fetch(site, days, tzinfo).
FetchParams(ing) ==
    CASE ing = "nbm" -> <<"site">>
      [] ing = "grid" -> <<"site">>
      [] ing = "ndfd" -> <<"site">>
      [] ing = "rss" -> <<"site", "days", "tzinfo">>

RECURSIVE Dedup(_, _)
\* the dedup loop of _ingestor_order: first occurrences, in order
Dedup(list, seen) ==
    IF list = << >> THEN << >>
    ELSE IF Head(list) \in seen THEN Dedup(Tail(list), seen)
    ELSE <<Head(list)>> \o Dedup(Tail(list), seen \cup {Head(list)})

\* A plausible slip: RSS mode appends the RSS ingestor instead of leading with it.
_ingestor_order_rss_last(s, nbm, grid, ndfd, rss) ==
    LET base_public == <<nbm, ndfd, grid>> IN
    Dedup(IF s.primary_ingest = "PUBLIC_FILES"
          THEN base_public \o (IF s.rss_fallback THEN <<rss>> ELSE << >>)
          ELSE base_public \o <<rss>>, {})

\* _ingestor_order
_ingestor_order(s, nbm, grid, ndfd, rss) ==
    LET base_public == <<nbm, ndfd, grid>> IN
    Dedup(IF s.primary_ingest = "PUBLIC_FILES"
          THEN base_public \o (IF s.rss_fallback THEN <<rss>> ELSE << >>)
          ELSE <<rss>> \o base_public, {})

\* site_map: a dict keyed by site name, home inserted first; equal names
\* share one entry.
SiteNames(s) == IF s.home = s.work THEN <<s.home>> ELSE <<s.home, s.work>>

\* What a source's feed holds for a site when the driver asks for it.
UpstreamStates == {"data", "empty", "error"}

\* A plausible slip: the NDFD ingestor calls parse_dwml without its source
\* name, and the records carry the parser's default.
FeedRecords_default_source(ing, site) ==
    CASE ing = "nbm" -> <<Rec(1, source_name(ing), Some(82), Some(60), Some(40)),
                          Rec(2, source_name(ing), None, None, None)>>
      [] ing = "grid" -> <<Rec(1, source_name(ing), Some(84), Some(59), None)>>
      [] ing = "ndfd" -> <<Rec(1, "nws_rss", Some(85), None, Some(60)),
                           Rec(2, "nws_rss", Some(70), Some(80), None)>>
      [] ing = "rss" -> <<Rec(1, source_name(ing), Some(83), Some(61), Some(20))>>

\* The daily records a source yields when its feed holds data; each
\* ingestor stamps its records with its own source_name.
FeedRecords(ing, site) ==
    CASE ing = "nbm" -> <<Rec(1, source_name(ing), Some(82), Some(60), Some(40)),
                          Rec(2, source_name(ing), None, None, None)>>
      [] ing = "grid" -> <<Rec(1, source_name(ing), Some(84), Some(59), None)>>
      [] ing = "ndfd" -> <<Rec(1, source_name(ing), Some(85), None, Some(60)),
                           Rec(2, source_name(ing), Some(70), Some(80), None)>>
      [] ing = "rss" -> <<Rec(1, source_name(ing), Some(83), Some(61), Some(20))>>

\* The call ingestor.fetch(*args): binding the arguments fails with a
\* TypeError when they do not match the method's parameters; otherwise the
\* ingestor returns its records, an empty list, or raises the feed's error.
ingestor_fetch(ing, args, site, up) ==
    IF Len(args) # Len(FetchParams(ing))
    THEN [kind |-> "raise", msg |-> "TypeError: missing required positional arguments",
          recs |-> << >>]
    ELSE IF up = "data"
    THEN [kind |-> "return", msg |-> "", recs |-> FeedRecords(ing, site)]
    ELSE IF up = "empty"
    THEN [kind |-> "return", msg |-> "", recs |-> << >>]
    ELSE [kind |-> "raise", msg |-> "HTTPError: 503 Server Error", recs |-> << >>]

Contains(list, x) == \E i \in DOMAIN list : list[i] = x

\* A failure string f"{source}: {message}"
FailureText(source, message) == <<source, ": ", message>>

\* A plausible slip: the error of a fetch is not caught.
ingest_body_uncaught(recs, ok, failed, source, site_name, result) ==
    IF result.kind = "raise"
    THEN [records |-> recs, sources_ok |-> ok, sources_failed |-> failed, escaped |-> TRUE]
    ELSE IF result.recs # << >>
    THEN [records |-> [recs EXCEPT ![site_name] = @ \o result.recs],
          sources_ok |-> IF Contains(ok[site_name], source) THEN ok
                         ELSE [ok EXCEPT ![site_name] = Append(@, source)],
          sources_failed |-> failed, escaped |-> FALSE]
    ELSE [records |-> recs, sources_ok |-> ok,
          sources_failed |-> [failed EXCEPT ![site_name] =
                                 Append(@, FailureText(source, "no data"))],
          escaped |-> FALSE]

\* A plausible slip: an empty result is booked as a success.
ingest_body_empty_ok(recs, ok, failed, source, site_name, result) ==
    IF result.kind = "raise"
    THEN [records |-> recs, sources_ok |-> ok,
          sources_failed |-> [failed EXCEPT ![site_name] =
                                 Append(@, FailureText(source, result.msg))],
          escaped |-> FALSE]
    ELSE [records |-> [recs EXCEPT ![site_name] = @ \o result.recs],
          sources_ok |-> IF Contains(ok[site_name], source) THEN ok
                         ELSE [ok EXCEPT ![site_name] = Append(@, source)],
          sources_failed |-> failed, escaped |-> FALSE]

\* run_pipeline, lines 75-85: the body of the ingestion loop for one
\* (ingestor, site) pair, given what ingestor.fetch(site) did.
ingest_body(recs, ok, failed, source, site_name, result) ==
    IF result.kind = "raise"
    THEN [records |-> recs, sources_ok |-> ok,
          sources_failed |-> [failed EXCEPT ![site_name] =
                                 Append(@, FailureText(source, result.msg))],
          escaped |-> FALSE]
    ELSE IF result.recs # << >>
    THEN [records |-> [recs EXCEPT ![site_name] = @ \o result.recs],
          sources_ok |-> IF Contains(ok[site_name], source) THEN ok
                         ELSE [ok EXCEPT ![site_name] = Append(@, source)],
          sources_failed |-> failed, escaped |-> FALSE]
    ELSE [records |-> recs, sources_ok |-> ok,
          sources_failed |-> [failed EXCEPT ![site_name] =
                                 Append(@, FailureText(source, "no data"))],
          escaped |-> FALSE]

SiteNameChoices == {"Home", "Work"}
DaysChoices == {1, 2}

PipelineInit ==
    /\ settings \in [primary_ingest : {"PUBLIC_FILES", "RSS"},
                     rss_fallback : BOOLEAN,
                     days : DaysChoices,
                     home : {"Home"},
                     work : SiteNameChoices]
    /\ pc = "start"
    /\ order = << >> /\ idx = 0 /\ records = << >> /\ sources_ok = << >>
    /\ sources_failed = << >> /\ fetch_log = << >> /\ rows = << >>
    /\ now = 0 /\ ttl = 0 /\ files = [k \in CacheKeys |-> NoFile] /\ dirs = {}
    /\ lastFetch = [k \in CacheKeys |-> None] /\ op = NoOp
    /\ ens_records = << >> /\ ens_days = 0 /\ ens_out = None /\ ens_pc = "idle"
    /\ ehs_heat = None /\ ehs_freeze = None
    /\ grib_now = 0 /\ grib_cfg = None /\ grib_cycle = None /\ grib_pc = "idle"
    /\ grib_call = None /\ grib_calls = << >>
    /\ parse_in = None /\ parse_out = None /\ feed_op = None

\* run_pipeline, lines 58-73: the ingestors, the per-site dictionaries and
\* the dispatch order.
Start ==
    /\ pc = "start"
    /\ order' = _ingestor_order(settings, "nbm", "grid", "ndfd", "rss")
    /\ records' = [n \in {settings.home, settings.work} |-> << >>]
    /\ sources_ok' = [n \in {settings.home, settings.work} |-> << >>]
    /\ sources_failed' = [n \in {settings.home, settings.work} |-> << >>]
    /\ idx' = 0
    /\ pc' = "ingest"
    /\ UNCHANGED <<settings, fetch_log, rows, cacheVars, ensVars, ehsVars, gribVars, parseVars, feedVars>>

\* run_pipeline, lines 73-85: one iteration of the nested loop, ingestors
\* outside and sites inside.
IngestStep ==
    /\ pc = "ingest"
    /\ \E up \in UpstreamStates :
         LET names == SiteNames(settings)
             ing == order[(idx \div Len(names)) + 1]
             site_name == names[(idx % Len(names)) + 1]
             result == ingestor_fetch(ing, <<site_name>>, site_name, up)
             r == ingest_body(records, sources_ok, sources_failed,
                              source_name(ing), site_name, result)
         IN  /\ fetch_log' = Append(fetch_log,
                                    [ing |-> ing, site |-> site_name, up |-> up,
                                     result |-> result])
             /\ records' = r.records
             /\ sources_ok' = r.sources_ok
             /\ sources_failed' = r.sources_failed
             /\ idx' = idx + 1
             /\ pc' = IF r.escaped THEN "aborted"
                      ELSE IF idx + 1 = Len(order) * Len(names) THEN "reduce"
                      ELSE "ingest"
    /\ UNCHANGED <<settings, order, rows, cacheVars, ensVars, ehsVars, gribVars, parseVars, feedVars>>

\* run_pipeline, lines 87-88: the reducer is run on each site's accumulator.
RunReducer ==
    /\ pc = "reduce"
    /\ rows' = [home |-> build_site_ensembles(settings.home, records[settings.home],
                                              settings.days),
                work |-> build_site_ensembles(settings.work, records[settings.work],
                                              settings.days)]
    /\ pc' = "done"
    /\ UNCHANGED <<settings, order, idx, records, sources_ok, sources_failed,
                   fetch_log, cacheVars, ensVars, ehsVars, gribVars, parseVars, feedVars>>

PipelineNext ==
    \/ Start
    \/ IngestStep
    \/ RunReducer

SpecPipeline == PipelineInit /\ [][PipelineNext]_vars

\* ---- what the claims about the driver are stated over ----
PipeStarted == pc \in {"ingest", "reduce", "done", "aborted"}
LoopOver == pc \in {"reduce", "done"}
DistinctSites == settings.home # settings.work
\* the k-th (ingestor, site) pair of the dispatch: ingestors outside, home
\* before work inside
PairAt(k) == <<order[((k - 1) \div 2) + 1],
               IF (k - 1) % 2 = 0 THEN settings.home ELSE settings.work>>
\* the entries of the fetch log of one site
LogOf(n) == SelectSeq(fetch_log, LAMBDA e : e.site = n)
Count(list, x) == Cardinality({i \in DOMAIN list : list[i] = x})
RECURSIVE ReturnedRecords(_)
\* the records the logged fetches returned, in call order
ReturnedRecords(log) ==
    IF log = << >> THEN << >>
    ELSE (IF Head(log).result.kind = "return" THEN Head(log).result.recs ELSE << >>)
         \o ReturnedRecords(Tail(log))

\* C3: with two sites of distinct names the fetch calls made so far are a
\* prefix of the pairs of the dispatch order, ingestors in the outer loop
\* and sites in the inner one, each pair once, whatever the earlier fetches
\* did; the loop is never abandoned, all pairs have been called when it is
\* over, and the reducer has then produced the rows of both sites.
C3_EveryPairFetchedOnce ==
    (PipeStarted /\ DistinctSites) =>
        /\ pc # "aborted"
        /\ Len(fetch_log) <= 2 * Len(order)
        /\ \A k \in DOMAIN fetch_log :
              <<fetch_log[k].ing, fetch_log[k].site>> = PairAt(k)
        /\ LoopOver => Len(fetch_log) = 2 * Len(order)
        /\ pc = "done" => DOMAIN rows = {"home", "work"}

\* C3 witness: a run in which the first ingestor raised for the first site
\* and returned nothing for the second went through all pairs and reduced.
C3_Witness ==
    /\ pc = "done" /\ DistinctSites
    /\ Len(order) = 4
    /\ Len(fetch_log) = 8
    /\ fetch_log[1].result.kind = "raise"
    /\ fetch_log[2].result.kind = "return" /\ fetch_log[2].result.recs = << >>
    /\ fetch_log[3].result.recs # << >>

\* C4: for every site and every fetch made for it exactly one outcome is
\* recorded: records returned -> appended to the site's accumulator and the
\* source once in sources_ok; empty list -> "<source>: no data" in
\* sources_failed; error -> "<source>: <message>" in sources_failed; and no
\* source is both in sources_ok and in sources_failed of a site.
C4_OneOutcomePerFetch ==
    (PipeStarted /\ DistinctSites) =>
        \A n \in {settings.home, settings.work} :
            /\ records[n] = ReturnedRecords(LogOf(n))
            /\ Len(sources_ok[n]) + Len(sources_failed[n]) = Len(LogOf(n))
            /\ \A k \in DOMAIN LogOf(n) :
                  LET e == LogOf(n)[k]
                      src == source_name(e.ing)
                      fails == {i \in DOMAIN sources_failed[n] : sources_failed[n][i][1] = src} IN
                  /\ (e.result.kind = "return" /\ e.result.recs # << >>) =>
                        /\ Count(sources_ok[n], src) = 1
                        /\ fails = {}
                  /\ (e.result.kind = "return" /\ e.result.recs = << >>) =>
                        /\ Count(sources_ok[n], src) = 0
                        /\ Cardinality(fails) = 1
                        /\ Count(sources_failed[n], <<src, ": ", "no data">>) = 1
                  /\ e.result.kind = "raise" =>
                        /\ Count(sources_ok[n], src) = 0
                        /\ Cardinality(fails) = 1
                        /\ Count(sources_failed[n], <<src, ": ", e.result.msg>>) = 1

\* C4 witness: after the loop one site has a source in sources_ok, a
\* "no data" entry and an error entry.
C4_Witness ==
    /\ LoopOver /\ DistinctSites
    /\ sources_ok["Home"] = <<"nbm_grib">>
    /\ records["Home"] = FeedRecords("nbm", "Home")
    /\ Contains(sources_failed["Home"], <<"nws_ndfd", ": ", "no data">>)
    /\ Contains(sources_failed["Home"],
                <<"nws_gridpoint", ": ", "HTTPError: 503 Server Error">>)

\* C5 (as claimed): with primary_ingest = PUBLIC_FILES the dispatch order is
\* GRIB, gridpoint, NDFD, followed by RSS iff rss_fallback.
C5_PublicFilesOrder ==
    (PipeStarted /\ settings.primary_ingest = "PUBLIC_FILES") =>
        order = <<"nbm", "grid", "ndfd">> \o (IF settings.rss_fallback THEN <<"rss">> ELSE << >>)

\* C6: with primary_ingest = RSS the order is the RSS ingestor followed by
\* the three public-files ingestors in the relative order they have in
\* PUBLIC_FILES mode, whatever rss_fallback is; in every mode no ingestor
\* appears twice.
C6_RssFirstNoDuplicates ==
    PipeStarted =>
        LET notRss(i) == i # "rss"
            public == _ingestor_order([settings EXCEPT !.primary_ingest = "PUBLIC_FILES"],
                                      "nbm", "grid", "ndfd", "rss") IN
        /\ settings.primary_ingest = "RSS" =>
              /\ Len(order) = 4
              /\ order[1] = "rss"
              /\ SubSeq(order, 2, 4) = SelectSeq(public, notRss)
              /\ {order[i] : i \in 2 .. 4} = {"nbm", "grid", "ndfd"}
        /\ \A i, j \in DOMAIN order : order[i] = order[j] => i = j

\* C6 witness: RSS mode with rss_fallback off, the order computed.
C6_Witness ==
    /\ PipeStarted
    /\ settings.primary_ingest = "RSS" /\ ~settings.rss_fallback
    /\ order[1] = "rss" /\ Len(order) = 4

\* C7 (as claimed): whenever the driver called fetch(site) on an ingestor of
\* the dispatch order while its feed was reachable and held daily records,
\* the call returned those records and the source is in that site's
\* sources_ok and not in its sources_failed.
C7_UniformFetchContract ==
    (PipeStarted /\ DistinctSites) =>
        \A k \in DOMAIN fetch_log :
            LET e == fetch_log[k] IN
            e.up = "data" =>
                /\ e.result.kind = "return"
                /\ e.result.recs = FeedRecords(e.ing, e.site)
                /\ Contains(sources_ok[e.site], source_name(e.ing))
                /\ \A i \in DOMAIN sources_failed[e.site] :
                      sources_failed[e.site][i][1] # source_name(e.ing)

\* the sources that the rows emitted for a site cite
CitedSources(site_rows) ==
    UNION {{site_rows[i].sources[j] : j \in DOMAIN site_rows[i].sources} : i \in DOMAIN site_rows}

\* the sources recorded in sources_failed of a site
FailedSources(n) == {sources_failed[n][i][1] : i \in DOMAIN sources_failed[n]}

\* C28: after ingestion and reduction every source cited by a row of a site
\* is in that site's sources_ok.
C28_CitedSourcesAreOk ==
    pc = "done" =>
        /\ \A src \in CitedSources(rows.home) : Contains(sources_ok[settings.home], src)
        /\ \A src \in CitedSources(rows.work) : Contains(sources_ok[settings.work], src)

\* C28 witness: a finished run whose rows for Home cite the GRIB and NDFD
\* sources, both in sources_ok, while the gridpoint source failed and is
\* cited nowhere.
C28_Witness ==
    /\ pc = "done" /\ DistinctSites
    /\ CitedSources(rows.home) = {"nbm_grib", "nws_ndfd"}
    /\ sources_ok["Home"] = <<"nbm_grib", "nws_ndfd">>
    /\ "nws_gridpoint" \in FailedSources("Home")
    /\ CitedSources(rows.work) = {}

====
